---- MODULE Spec2Model ----
(***************************************************************************)
(* Conjugate-Gradient solver of deepmr (src/src/deepmr/optim/cg.py):       *)
(* cg_solve and the per-iteration step object CGStep.                      *)
(*                                                                         *)
(* Tensors hold exact complex rationals; one extra value, NaN, stands for  *)
(* every non-finite float (nan, inf), which is what a division by zero     *)
(* produces in torch and which every later operation of the solver keeps   *)
(* non-finite.  Floating-point rounding is not modelled.                   *)
(*                                                                         *)
(* A tensor has shape (B, N, 1): B batch elements, each a column vector of *)
(* N entries.  It is a sequence of B sequences of N numbers.               *)
(***************************************************************************)
EXTENDS Integers, Sequences, FiniteSets, TLC

\* ------------------------------------------------------------------ bounds

\* cg_solve is called with niter in 0..MaxIter
MaxIter == 3

\* the input tensor has at most MaxBatch batch elements
MaxBatch == 2

\* ----------------------------------------------------------------- numbers
\* A number is <<a, b, d>>, the complex rational (a + b*i)/d in lowest terms
\* with d > 0; NaN (any non-finite float) is <<0, 0, 0>>.

Abs(k) == IF k < 0 THEN -k ELSE k

RECURSIVE Gcd(_, _)
Gcd(m, k) == IF k = 0 THEN m ELSE Gcd(k, m % k)

NaN == <<0, 0, 0>>

IsNaN(z) == z[3] = 0

Reduce(a, b, d, g) == <<a \div g, b \div g, d \div g>>

Norm(a, b, d) == Reduce(a, b, d, Gcd(Gcd(Abs(a), Abs(b)), d))

Cx(a, b) == <<a, b, 1>>

Zero == Cx(0, 0)

One == Cx(1, 0)

\* the products are taken after cancelling common factors, which keeps the
\* intermediate integers small
AddOver(y, z, ky, kz) == Norm(y[1] * ky + z[1] * kz, y[2] * ky + z[2] * kz, y[3] * ky)

AddWith(y, z, g) == AddOver(y, z, z[3] \div g, y[3] \div g)

CAdd(y, z) == IF IsNaN(y) \/ IsNaN(z) THEN NaN ELSE AddWith(y, z, Gcd(y[3], z[3]))

CNeg(z) == <<-z[1], -z[2], z[3]>>

MulParts(y1, y2, z1, z2, d) == Norm(y1 * z1 - y2 * z2, y1 * z2 + y2 * z1, d)

MulWith(y, z, gy, gz) ==
    MulParts(y[1] \div gy, y[2] \div gy, z[1] \div gz, z[2] \div gz,
             (y[3] \div gz) * (z[3] \div gy))

CMul(y, z) ==
    IF IsNaN(y) \/ IsNaN(z) THEN NaN
    ELSE MulWith(y, z, Gcd(Gcd(Abs(y[1]), Abs(y[2])), z[3]),
                       Gcd(Gcd(Abs(z[1]), Abs(z[2])), y[3]))

CConj(z) == <<z[1], -z[2], z[3]>>

\* 1 / z for a finite z # 0
CInv(z) == Norm(z[1] * z[3], -z[2] * z[3], z[1] * z[1] + z[2] * z[2])

\* a guard that would give 0 for a zero divisor
CDiv_guarded(y, z) ==
    IF IsNaN(y) \/ IsNaN(z) THEN NaN
    ELSE IF z[1] = 0 /\ z[2] = 0 THEN Zero
    ELSE CMul(y, CInv(z))

\* y / z; a zero divisor gives a non-finite value and no exception
CDiv(y, z) ==
    IF IsNaN(y) \/ IsNaN(z) \/ (z[1] = 0 /\ z[2] = 0) THEN NaN
    ELSE CMul(y, CInv(z))

CReal(z) == IF IsNaN(z) THEN NaN ELSE Norm(z[1], 0, z[3])

\* |z|^2
CAbs2(z) == CMul(CConj(z), z)

\* y < z for real y and z; a comparison with a non-finite value is False
RLess(y, z) == ~IsNaN(y) /\ ~IsNaN(z) /\ y[1] * z[3] < z[1] * y[3]

RLeq(y, z) == ~IsNaN(y) /\ ~IsNaN(z) /\ y[1] * z[3] <= z[1] * y[3]

RECURSIVE SumSeq(_)
SumSeq(s) == IF s = <<>> THEN Zero ELSE CAdd(Head(s), SumSeq(Tail(s)))

\* ----------------------------------------------------------------- tensors
\* A tensor of shape (B, N, 1) is the sequence of its B batch elements, each the
\* sequence of its N entries: t[b][i].

\* F(v), with v computed once
Bind(v, F(_)) == F(v)

\* Op applied to every element of s
RECURSIVE Map(_, _)
Map(Op(_), s) == IF s = <<>> THEN <<>> ELSE <<Op(Head(s))>> \o Map(Op, Tail(s))

\* s and t combined element by element
RECURSIVE Zip(_, _, _)
Zip(Op(_, _), s, t) ==
    IF s = <<>> THEN <<>> ELSE <<Op(Head(s), Head(t))>> \o Zip(Op, Tail(s), Tail(t))

VAdd(u, v) == Zip(CAdd, u, v)

VMul(u, v) == Zip(CMul, u, v)

VDiv(u, v) == Zip(CDiv, u, v)

TAdd(s, t) == Zip(VAdd, s, t)

TMul(s, t) == Zip(VMul, s, t)

TDiv(s, t) == Zip(VDiv, s, t)

\* Op applied to every entry of t
TMap(Op(_), t) == LET Row(v) == Map(Op, v) IN Map(Row, t)

TNeg(t) == TMap(CNeg, t)

TConj(t) == TMap(CConj, t)

TReal(t) == TMap(CReal, t)

\* c * t for a scalar c
TScale(c, t) == LET Times(z) == CMul(c, z) IN TMap(Times, t)

\* the tensor's entries in one sequence (reshape(-1))
RECURSIVE Flatten(_)
Flatten(t) == IF t = <<>> THEN <<>> ELSE Head(t) \o Flatten(Tail(t))

\* torch.linalg.norm(t).item() ** 2: the sum of |t[b][i]|^2 over the whole tensor
Norm2(t) == SumSeq(Flatten(TMap(CAbs2, t)))

\* M @ x for a matrix M (a sequence of rows) and a tensor x of shape (B, N, 1):
\* the matrix-vector product of every batch element
MatMul(M, x) ==
    LET MatVec(v) == LET Row(row) == SumSeq(VMul(row, v)) IN Map(Row, M)
    IN  Map(MatVec, x)

\* the value None, and a name not bound yet
None == <<>>

\* ------------------------------------------------------------ operators
\* The AHA argument of cg_solve is [rep, M, lam, ndim]:
\*   rep  "linop" (a deepmr.linops.Linop handle), "callable" (a plain function)
\*        or "tensor" (a dense matrix, after torch.as_tensor);
\*   M    the matrix of the linear map, applied to every batch element;
\*   lam  the multiple of the identity added to it (0 for the caller's AHA);
\*   ndim the handle's ndim attribute (a Linop's), 0 where the object has none;
\*   fault NoFault for an operator that always returns, or [at, exc] for one
\*        that raises the exception exc at its at-th call of a solve.

\* an operator that never raises
NoFault == <<>>

Linop(M, nd) == [rep |-> "linop", M |-> M, lam |-> 0, ndim |-> nd, fault |-> NoFault]

Callable(M) == [rep |-> "callable", M |-> M, lam |-> 0, ndim |-> 0, fault |-> NoFault]

\* the operator op, raising exc at its at-th call
Faulty(op, at, exc) == [op EXCEPT !.fault = [at |-> at, exc |-> exc]]

Dense(M) == [rep |-> "tensor", M |-> M, lam |-> 0, ndim |-> 0, fault |-> NoFault]

\* AHA + lamda * Identity(AHA.ndim) of two Linop handles
LinopAddIdentity(AHA, lamda) == [AHA EXCEPT !.lam = AHA.lam + lamda]

\* a slip that would leave the Tikhonov term out of the wrapped operator
LambdaNoTikhonov(AHA, lamda) ==
    [rep |-> "callable", M |-> AHA.M, lam |-> AHA.lam, ndim |-> 0, fault |-> AHA.fault]

\* lambda x: AHA(x) + lamda * x   and   lambda x: AHA @ x + lamda * x
Lambda(AHA, lamda) ==
    [rep |-> "callable", M |-> AHA.M, lam |-> AHA.lam + lamda, ndim |-> 0, fault |-> AHA.fault]

\* cg_solve: add Tikhonov regularization (the operator handed to CGStep)
Tikhonov(AHA, lamda) ==
    IF lamda # 0
    THEN IF AHA.rep = "linop" THEN LinopAddIdentity(AHA, lamda)
         ELSE Lambda(AHA, lamda)
    ELSE AHA

\* whether op(x) can be evaluated: a torch.Tensor is not callable
IsCallable(op) == op.rep # "tensor"

\* a Linop handle applied to x: the linear map, with the identity terms added to it
LinopApply(op, x) == TAdd(MatMul(op.M, x), TScale(Cx(op.lam, 0), x))

\* op(x) for a callable op: AHA(x) + lamda * x, AHA @ x + lamda * x, or AHA(x)
Call(op, x) ==
    IF op.rep = "linop" THEN LinopApply(op, x)
    ELSE TAdd(MatMul(op.M, x), TScale(Cx(op.lam, 0), x))

\* whether the k-th call of op in a solve raises
Raises(op, k) == op.fault # NoFault /\ op.fault.at = k

\* the ndim attribute read by "try: self.ndim = AHA.ndim": a Linop's ndim, a
\* tensor's number of axes (2 for a matrix); a function has none (0 here)
NdimAttr(op) ==
    CASE op.rep = "linop" -> op.ndim
      [] op.rep = "tensor" -> 2
      [] OTHER -> 0

\* ----------------------------------------------------------------- CGStep

\* CGStep.__init__: set up problem dims
InitNdim(AHA, ndim) == IF NdimAttr(AHA) # 0 THEN NdimAttr(AHA) ELSE ndim

\* a sequence like v holding c everywhere
Fill(v, c) == LET Same(z) == c IN Map(Same, v)

\* a slip that would take the first batch element's sum for every batch element
dot_first(ndim, s1, s2) ==
    LET Sums(prod) ==
            LET First(v) == Fill(v, SumSeq(prod[1]))
            IN  IF ndim = 1 THEN prod ELSE Map(First, prod)
    IN  Bind(TMul(TConj(s1), s2), Sums)

\* CGStep.dot.  The result, of shape s1.shape[:-ndim] followed by ndim axes of
\* length 1, is given broadcast to the shape of s1.
dot(ndim, s1, s2) ==
    LET PerElement(v) == Fill(v, SumSeq(v))
        Sums(prod) ==
            CASE ndim = 1 -> prod
              [] ndim = 2 -> Map(PerElement, prod)
              [] OTHER -> LET Joint(total) == LET Row(v) == Fill(v, total) IN Map(Row, prod)
                          IN  Bind(SumSeq(Flatten(prod)), Joint)
    IN  Bind(TMul(TConj(s1), s2), Sums)

\* CGStep.forward, one definition per assignment
forward_alpha(ndim, rsold, p, AHAp) == TDiv(rsold, dot(ndim, p, AHAp))

\* a slip that would step against the search direction
forward_output_minus(input, p, alpha) == TAdd(input, TNeg(TMul(p, alpha)))

forward_output(input, p, alpha) == TAdd(input, TMul(p, alpha))

\* a slip that would take the whole AHAp off the residual
forward_r_unscaled(r, AHAp, alpha) == TAdd(r, TNeg(AHAp))

forward_r(r, AHAp, alpha) == TAdd(r, TMul(AHAp, TNeg(alpha)))

forward_rsnew(ndim, r) == TReal(dot(ndim, r, r))

\* a slip that would divide by the rsold already overwritten with rsnew
forward_p_new_rsold(r, p, rsnew, rsold) == TAdd(r, TMul(p, TDiv(rsnew, rsnew)))

forward_p(r, p, rsnew, rsold) == TAdd(r, TMul(p, TDiv(rsnew, rsold)))

\* a tolerance is <<num, den>>; <<0, 0>> is tol = None
NoTol == <<0, 0>>

\* rsnew.sqrt() < tol for one entry of rsnew (real, >= 0 or non-finite)
SqrtLess(rs, tol) ==
    /\ ~IsNaN(rs)
    /\ tol[1] > 0
    /\ rs[1] * tol[2] * tol[2] < tol[1] * tol[1] * rs[3]

\* CGStep.check_convergence
check_convergence(rsnew, tol) ==
    IF tol # NoTol
    THEN \A b \in DOMAIN rsnew : \A i \in DOMAIN rsnew[b] : SqrtLess(rsnew[b][i], tol)
    ELSE FALSE

\* ------------------------------------------------------------------ inputs

Id == <<<<One, Zero>>, <<Zero, One>>>>

\* Hermitian positive semi-definite, singular
Diag60 == <<<<Cx(6, 0), Zero>>, <<Zero, Zero>>>>

\* Hermitian positive definite, complex
Herm == <<<<Cx(2, 0), Cx(0, 1)>>, <<Cx(0, -1), Cx(2, 0)>>>>

\* not Hermitian
Skew == <<<<Zero, One>>, <<Cx(-1, 0), Zero>>>>

Mats == {Id, Diag60, Herm, Skew}

Vecs == {<<Zero, Zero>>, <<One, Zero>>, <<One, Cx(2, 0)>>, <<One, Cx(0, 1)>>}

\* the input has 1..MaxBatch batch elements
Inputs == UNION {[1..k -> Vecs] : k \in 1..MaxBatch}

\* the ndim attribute of a Linop handle, and the ndim argument of cg_solve:
\* 2 makes every batch element one system, 1 every entry a system of its own
Ndims == {1, 2}

Handles == {Linop(M, nd) : M \in Mats, nd \in Ndims}
             \cup {Callable(M) : M \in Mats} \cup {Dense(M) : M \in Mats}

Tols == {NoTol, <<1, 10>>, <<2, 1>>}

Lamdas == {0, 1}

\* the arguments of one call of cg_solve
Calls ==
    [input : Inputs, AHA : Handles, niter : 0..MaxIter, tol : Tols,
     lamda : Lamdas, ndim : Ndims, save_history : BOOLEAN]

\* ------------------------------------------------------------------ NUFFT
\* The NUFFT pair of the specification (sections 4.1 to 4.3), on the grid of
\* the tests: npix points per axis, no oversampling (zero-padding and cropping
\* leave the array as it is), and a kernel of width 2 that interpolates
\* linearly.  A D-dimensional array is a sequence of npix arrays of D - 1
\* dimensions, a 0-dimensional array a number; index i of an axis lies at
\* offset Axis[i] from the centre index npix // 2.  A sample coordinate is a
\* tuple of D half grid cells: h stands for the normalised frequency
\* h / (2 * npix).

\* the matrix size of the tests
npix == 4

\* the centre index npix // 2
Centre == npix \div 2

\* the sequence <<a, ..., b>>
RECURSIVE Range(_, _)
Range(a, b) == IF a > b THEN <<>> ELSE <<a>> \o Range(a + 1, b)

\* the offsets of the indices 0..npix-1 of one axis from the centre index
Axis == Range(-Centre, npix - 1 - Centre)

\* the D-dimensional array holding c everywhere
RECURSIVE Full(_, _)
Full(c, D) == IF D = 0 THEN c ELSE Fill(Axis, Full(c, D - 1))

\* x + y for arrays of D dimensions
RECURSIVE AAdd(_, _, _)
AAdd(x, y, D) ==
    IF D = 0 THEN CAdd(x, y)
    ELSE LET Sub(u, v) == AAdd(u, v, D - 1) IN Zip(Sub, x, y)

\* c * x for a number c and an array x of D dimensions
RECURSIVE AScale(_, _, _)
AScale(c, x, D) ==
    IF D = 0 THEN CMul(c, x)
    ELSE LET Sub(u) == AScale(c, u, D - 1) IN Map(Sub, x)

\* the sum of c[i] * xs[i] over a sequence xs of arrays of D dimensions
RECURSIVE Combine(_, _, _)
Combine(c, xs, D) ==
    IF Len(xs) = 1 THEN AScale(Head(c), Head(xs), D)
    ELSE AAdd(AScale(Head(c), Head(xs), D), Combine(Tail(c), Tail(xs), D), D)

\* the entries of an array of D dimensions in one sequence, first axis slowest
RECURSIVE Ravel(_, _)
Ravel(x, D) ==
    IF D = 0 THEN <<x>>
    ELSE LET Sub(u) == Ravel(u, D - 1) IN Flatten(Map(Sub, x))

\* exp(2*pi*i*e/npix), a power of i on a grid of four points
Twiddle(e) ==
    CASE e % npix = 0 -> One
      [] e % npix = 1 -> Cx(0, 1)
      [] e % npix = 2 -> Cx(-1, 0)
      [] e % npix = 3 -> Cx(0, -1)

\* the centred discrete Fourier sum of x, one axis after the other: at
\* offset k of an axis the sum over its offsets m of
\* scale * exp(sign * 2*pi*i * k*m / npix) * x[m]
RECURSIVE FourierSum(_, _, _, _)
FourierSum(x, sign, scale, D) ==
    IF D = 0 THEN x
    ELSE LET Inner(u) == FourierSum(u, sign, scale, D - 1)
             Outer(inner) ==
                 LET At(k) == LET Factor(m) == CMul(scale, Twiddle(sign * k * m))
                              IN  Combine(Map(Factor, Axis), inner, D - 1)
                 IN  Map(At, Axis)
         IN  Bind(Map(Inner, x), Outer)

\* FFT (step 3 of the forward operator)
fft(x, D) == FourierSum(x, -1, One, D)

\* a slip that would leave the 1/N of the inverse transform out
ifft_unscaled(X, D) == FourierSum(X, 1, One, D)

\* inverse FFT (step 2 of the adjoint operator), with its factor 1/npix per axis
ifft(X, D) == FourierSum(X, 1, <<1, 0, npix>>, D)

\* the roll-off correction of one axis at offset m from the centre: 1 at the
\* centre, growing towards the edge
RollOff(m) == Norm(4 + Abs(m) * Abs(m), 0, 4)

\* multiply by the deapodization roll-off correction, the product of the
\* corrections of the axes
RECURSIVE apodize(_, _)
apodize(x, D) ==
    IF D = 0 THEN x
    ELSE LET Sub(u, m) == AScale(RollOff(m), apodize(u, D - 1), D - 1) IN Zip(Sub, x, Axis)

\* a slip that would weigh every cell within the kernel's width by 1
Kernel_flat(h, g) ==
    LET d == Abs(2 * g - h) IN IF d >= 2 THEN Zero ELSE One

\* the kernel of one axis between a sample at half-cell h and grid offset g:
\* 1 on the sample, 1/2 half a cell away, 0 from one cell on
Kernel(h, g) ==
    LET d == Abs(2 * g - h) IN IF d >= 2 THEN Zero ELSE Norm(2 - d, 0, 2)

\* the value degridding reads at sample k: the sum of the grid values within
\* the kernel's width around it, weighted by the product of the kernels of
\* the axes
RECURSIVE Gather(_, _)
Gather(grid, k) ==
    IF k = <<>> THEN grid
    ELSE LET Term(u, g) ==
                 IF Kernel(Head(k), g) = Zero THEN Zero
                 ELSE CMul(Kernel(Head(k), g), Gather(u, Tail(k)))
         IN  SumSeq(Zip(Term, grid, Axis))

\* degridding (gather) at the samples coord
degrid(grid, coord) == LET Sample(k) == Gather(grid, k) IN Map(Sample, coord)

\* of the samples <<value, coordinates left>>, those whose kernel reaches grid
\* offset g of the next axis, each weighted by that kernel
RECURSIVE Reaching(_, _)
Reaching(samples, g) ==
    IF samples = <<>> THEN <<>>
    ELSE LET z == Head(samples)[1]
             k == Head(samples)[2]
         IN  IF Kernel(Head(k), g) = Zero THEN Reaching(Tail(samples), g)
             ELSE << <<CMul(Kernel(Head(k), g), z), Tail(k)>> >> \o Reaching(Tail(samples), g)

\* the grid of D dimensions after every sample has added its kernel-weighted
\* value to the cells within the kernel's width around it
RECURSIVE ScatterAdd(_, _)
ScatterAdd(samples, D) ==
    IF D = 0 THEN LET Value(sample) == sample[1] IN SumSeq(Map(Value, samples))
    ELSE LET Cell(g) == ScatterAdd(Reaching(samples, g), D - 1) IN Map(Cell, Axis)

\* gridding (scatter-add) of the samples data at coord
gridding(data, coord, D) ==
    LET Sample(z, k) == <<z, k>> IN ScatterAdd(Zip(Sample, data, coord), D)

\* a slip that would sum over the contrast axis with weight 1 throughout
expand_all(basis, xs, D) ==
    LET Contrast(row) == Combine(Fill(row, One), xs, D) IN Map(Contrast, basis)

\* the contraction of the forward operator: contrast c of the result is the
\* sum of basis[c][k] * xs[k] over the coefficients k
expand(basis, xs, D) == LET Contrast(row) == Combine(row, xs, D) IN Map(Contrast, basis)

\* a slip that would contract with the transpose of the basis, not conjugated
project_transpose(basis, xs, D) ==
    LET Coefficient(k) ==
            LET Entry(row) == row[k] IN Combine(Map(Entry, basis), xs, D)
    IN  Map(Coefficient, Range(1, Len(basis[1])))

\* the contraction of the adjoint operator, by the conjugate transpose:
\* coefficient k of the result is the sum of conj(basis[c][k]) * xs[c] over
\* the contrasts c
project(basis, xs, D) ==
    LET Coefficient(k) ==
            LET Entry(row) == CConj(row[k]) IN Combine(Map(Entry, basis), xs, D)
    IN  Map(Coefficient, Range(1, Len(basis[1])))

\* forward operator on one image: deapodize, (zero-pad,) FFT, degrid
nufft_one(x, k, D) == degrid(fft(apodize(x, D), D), k)

\* adjoint operator on the samples of one contrast: grid, inverse FFT, (crop,)
\* deapodize
nufft_adjoint_one(y, k, D) == apodize(ifft(gridding(y, k, D), D), D)

\* nufft(image, coord, basis_adjoint): image[b][k] is the array of batch
\* element b (slice and coil) and contrast or coefficient k, coord[c] the
\* samples of contrast c; basis is None when no basis is given
nufft(image, coord, basis, D) ==
    LET Element(xs) ==
            LET Transform(ys) ==
                    LET Contrast(x, k) == nufft_one(x, k, D) IN Zip(Contrast, ys, coord)
            IN  IF basis = None THEN Transform(xs)
                ELSE Bind(expand(basis, xs, D), Transform)
    IN  Map(Element, image)

\* nufft_adjoint(kdata, shape, coord, basis): kdata[b][c] holds the samples of
\* batch element b and contrast c
nufft_adjoint(kdata, coord, basis, D) ==
    LET Element(ys) ==
            LET Contrast(y, k) == nufft_adjoint_one(y, k, D)
                Contract(xs) == IF basis = None THEN xs ELSE project(basis, xs, D)
            IN  Bind(Zip(Contrast, ys, coord), Contract)
    IN  Map(Element, kdata)

\* the points of a D-dimensional grid, first axis slowest
RECURSIVE Points(_)
Points(D) ==
    IF D = 0 THEN << <<>> >>
    ELSE LET Rest(rest) ==
                 LET Row(a) == LET Put(pt) == <<a>> \o pt IN Map(Put, rest)
                 IN  Flatten(Map(Row, Axis))
         IN  Bind(Points(D - 1), Rest)

\* _generate_coordinates of the tests: the regularly spaced nodes
\* arange(npix) - npix // 2 of every axis, as one shot
generate_coordinates(D) ==
    LET Node(g) == LET Twice(a) == 2 * a IN Map(Twice, g)
    IN  Map(Node, Points(D))

\* ---------------------------------------------- sampling: radial, rosette
\* An argument that may be a scalar or a list is [scalar, value]; an optional
\* integer argument is None or <<k>>.

\* np.arange(m)
arange(m) == Range(0, m - 1)

\* int(math.pi * m), for the small m of the model
int_pi(m) == (355 * m) \div 113

\* shape expanded to (in-plane, contrasts, echoes)
expand_shape(shape) ==
    LET listed == IF shape.scalar THEN <<shape.value, 1>> ELSE shape.value
    IN  listed \o Fill(Range(Len(listed) + 1, 3), 1)

\* the default number of views
default_views(shape, nviews) ==
    IF nviews = None THEN (IF shape[2] = 1 THEN int_pi(shape[1]) ELSE 1)
    ELSE nviews[1]

\* the pseudo golden angle (1 - 233 / 377) * 360.0, in degrees
dphi == Norm(144 * 360, 0, 377)

\* phi = np.arange(m) * dphi
phi(m) == LET Angle(j) == CMul(Cx(j, 0), dphi) IN Map(Angle, arange(m))

\* _design.projection(interleaf, rot).swapaxes(-2, -1).T: the interleaf
\* rotated by every angle of rot, the rotations along the leading axis
projection(interleaf, rot) ==
    LET Rotated(angle) == [interleaf |-> interleaf, angle |-> angle] IN Map(Rotated, rot)

\* L.reshape(a, b, ...) of an array with a * b leading entries (C order)
reshape(L, a, b) ==
    LET Row(i) == LET At(j) == L[(i - 1) * b + j] IN Map(At, Range(1, b))
    IN  Map(Row, Range(1, a))

\* R.swapaxes(0, 1)
swapaxes(R) ==
    LET Col(j) == LET At(i) == R[i][j] IN Map(At, Range(1, Len(R)))
    IN  Map(Col, Range(1, Len(R[1])))

\* np.repeat(S, k, axis=0)
repeat(S, k) == LET At(i) == S[((i - 1) \div k) + 1] IN Map(At, Range(1, Len(S) * k))

\* the trajectory both designers build from their interleaf
rotate(interleaf, ncontrasts, nviews, nechoes) ==
    repeat(swapaxes(reshape(projection(interleaf, phi(ncontrasts * nviews)),
                            nviews, ncontrasts)), nechoes)

\* traj of radial(shape, nviews), as passed to Header
radial_traj(shape, nviews) ==
    LET expanded == expand_shape(shape)
    IN  rotate("spoke", expanded[2], default_views(expanded, nviews), expanded[Len(expanded)])

\* traj of rosette(shape, nviews), as passed to Header: shape is reordered to
\* (in-plane, echoes, 1) before the echoes are read from shape[1]
rosette_traj(shape, nviews) ==
    LET expanded == expand_shape(shape)
        reordered == <<expanded[1], expanded[3], 1>>
    IN  rotate("petal", expanded[2], default_views(expanded, nviews), reordered[2])

\* ----------------------------------------------------------------- Header
\* Header(shape, t=t, traj=traj, dcf=dcf, TE=TE): the fields of the dataclass
\* the model follows, _spacing with its declared default
Header(shape, t, traj, dcf, TE) ==
    [shape |-> shape, t |-> t, traj |-> traj, dcf |-> dcf, TE |-> TE, _spacing |-> None]

\* Header.__post_init__: a _spacing of None is subscripted, which raises
\* TypeError
post_init(self) ==
    IF self._spacing = None THEN [exc |-> "TypeError", self |-> None]
    ELSE [exc |-> "", self |-> self]

\* ---------------------------------------------------------- custom_phantom
\* A segmentation is [dtype, data], data the rows of a 2-D array of labels;
\* properties maps every key to the list of its values, one per label.

\* the largest integer up to which float32 holds every integer
Float32Exact == 16777216

\* torch.float32 of an integer below 2 * Float32Exact in magnitude: beyond
\* Float32Exact only the even integers exist, and ties go to the even mantissa
float32(x) ==
    IF Abs(x) <= Float32Exact \/ x % 2 = 0 THEN x
    ELSE IF ((x - 1) \div 2) % 2 = 0 THEN x - 1 ELSE x + 1

\* the elements of a set of integers in ascending order
RECURSIVE Sorted(_)
Sorted(S) ==
    IF S = {} THEN <<>>
    ELSE LET least == CHOOSE x \in S : \A y \in S : x <= y
         IN  <<least>> \o Sorted(S \ {least})

\* a slip that would leave the first label out
unique_but_first(data) == Tail(Sorted({data[r][c] : r \in DOMAIN data, c \in DOMAIN data[1]}))

\* np.unique(segmentation)
unique(data) == Sorted({data[r][c] : r \in DOMAIN data, c \in DOMAIN data[1]})

\* list[idx] is defined
InRange(list, idx) == -Len(list) <= idx /\ idx < Len(list)

\* list[idx] of Python: a negative idx counts from the end
Index(list, idx) == IF idx < 0 THEN list[Len(list) + idx + 1] ELSE list[idx + 1]

\* value[segmentation == idx] = x
Masked(value, data, idx, x) ==
    [r \in DOMAIN value |->
        [c \in DOMAIN value[r] |-> IF data[r][c] = idx THEN x ELSE value[r][c]]]

\* the inner loop of custom_phantom over the labels
RECURSIVE assign_labels(_, _, _, _)
assign_labels(value, data, labels, list) ==
    IF labels = <<>> THEN value
    ELSE assign_labels(Masked(value, data, Head(labels), float32(Index(list, Head(labels)))),
                       data, Tail(labels), list)

\* torch.zeros(segmentation.shape, dtype=torch.float32)
map_template(data) == [r \in DOMAIN data |-> [c \in DOMAIN data[r] |-> 0]]

\* custom_phantom(segmentation, properties): the exception raised ("" for
\* none) and the dictionary returned
custom_phantom(segmentation, properties) ==
    LET labels == unique(segmentation.data)
    IN  IF segmentation.dtype = "float32" THEN [exc |-> "AssertionError", phantom |-> None]
        ELSE IF \E key \in DOMAIN properties : \E j \in DOMAIN labels :
                    ~InRange(properties[key], labels[j])
             THEN [exc |-> "IndexError", phantom |-> None]
        ELSE [exc |-> "",
              phantom |-> [key \in DOMAIN properties |->
                              assign_labels(map_template(segmentation.data),
                                            segmentation.data, labels, properties[key])]]

\* ------------------------------------------------------------------- state

VARIABLES
    args,      \* args[s]: the arguments of solve s (never changed)
    pc,        \* pc[s]: "call", "loop", "break", "returned" or "raised"
    input,     \* cg_solve's input
    output,    \* cg_solve's output (None: not bound yet)
    history,   \* cg_solve's history
    n,         \* the number of loop iterations started
    CG,        \* the CGStep object: AHA, AHy, ndim, r, p, rsold, rsnew, tol
    AHAp,      \* the last value of forward's AHAp (None before the first step)
    applied,   \* how many times the operator was applied
    raised,    \* the exception that ended the solve ("" for none)
    container, \* container[s]: the type of the array the caller gave, and the
               \* types of the arrays bound to input and output
    isnumpy,   \* cg_solve's isnumpy (None before it is assigned)
    transform, \* the arguments and the results of the NUFFT calls (None when
               \* no NUFFT is under way)
    design,    \* the call of a trajectory designer: its arguments, the traj it
               \* built, the Header returned and the exception raised (None
               \* when no designer is called)
    phantom,   \* the call of custom_phantom: its arguments, the dictionary
               \* returned and the exception raised (None when it is not called)
    header,    \* the construction of a Header: the object under construction
               \* and the exception raised (None when none is constructed)
    bart,      \* the files on disk and the calls of write_bart and read_bart
               \* (None when no BART file is handled)
    states,    \* the EPG states dictionary given to Shift.apply and the one it
               \* returns (None when no operator is applied)
    rawdata,   \* the call of read_rawdata: the file, the readers tried, the
               \* data bound and the exception raised (None when not called)
    sorting,   \* the call of the MRD sorting: the acquisitions, the arrays
               \* returned and the exception raised (None when not called)
    denoiser   \* the _TGVDenoiser object and the record of its forward calls
               \* (None when none is constructed)

\* the state of the solves
solver == <<args, pc, input, output, history, n, CG, AHAp, applied, raised,
            container, isnumpy>>

\* the state of the other functions of the package
\* the state of the functions of io, bloch and prox
others == <<header, bart, states, rawdata, sorting, denoiser>>

package == <<transform, design, phantom, others>>

vars == <<solver, package>>

Solves == DOMAIN args

\* device = None
NoDevice == "None"

\* the state of every solve before cg_solve runs, solve s being given its input
\* as an array of type types[s] kept on device on[s], and the argument
\* device[s]
CalledOn(a, types, on, device) ==
    /\ container = [s \in DOMAIN a |->
                       [given |-> types[s], input |-> types[s], output |-> None,
                        on_given |-> on[s], on_input |-> on[s], on_output |-> None,
                        idevice |-> None, device |-> device[s]]]
    /\ isnumpy = [s \in DOMAIN a |-> None]
    /\ args = a
    /\ pc = [s \in DOMAIN a |-> "call"]
    /\ input = [s \in DOMAIN a |-> a[s].input]
    /\ output = [s \in DOMAIN a |-> None]
    /\ history = [s \in DOMAIN a |-> <<>>]
    /\ n = [s \in DOMAIN a |-> 0]
    /\ CG = [s \in DOMAIN a |-> None]
    /\ AHAp = [s \in DOMAIN a |-> None]
    /\ applied = [s \in DOMAIN a |-> 0]
    /\ raised = [s \in DOMAIN a |-> ""]

\* the calls on arrays kept on the cpu, no device being asked for
Called(a, types) ==
    CalledOn(a, types, [s \in DOMAIN a |-> "cpu"], [s \in DOMAIN a |-> NoDevice])

\* no other function of the package is under way
NoOthers ==
    /\ header = None /\ bart = None /\ states = None
    /\ rawdata = None /\ sorting = None /\ denoiser = None

Idle == transform = None /\ design = None /\ phantom = None /\ NoOthers

BeforeCallAs(a, types) == Called(a, types) /\ Idle

\* the state of every solve before cg_solve runs on torch tensors
BeforeCall(a) == BeforeCallAs(a, [s \in DOMAIN a |-> "Tensor"])

Init == \E c \in Calls : BeforeCall([s \in {1} |-> c])

\* CGStep.__init__
CGStep(AHA, AHy, ndim, tol) ==
    LET nd == InitNdim(AHA, ndim)
        r == AHy
    IN  [AHA |-> AHA, AHy |-> AHy, ndim |-> nd, r |-> r, p |-> r,
         rsold |-> dot(nd, r, r), rsnew |-> None, tol |-> tol]

\* CGStep.forward(input): the object after the call (CG), the value returned
\* (output) and the operator's value AHAp
forward(cg, x) ==
    LET WithAHAp(q) ==
          LET WithAlpha(alpha) ==
                LET WithR(r) ==
                      LET WithRsnew(rsnew) ==
                            [CG |-> [cg EXCEPT !.r = r, !.rsnew = rsnew,
                                               !.p = forward_p(r, cg.p, rsnew, cg.rsold),
                                               !.rsold = rsnew],
                             output |-> forward_output(x, cg.p, alpha),
                             AHAp |-> q]
                      IN  Bind(forward_rsnew(cg.ndim, r), WithRsnew)
                IN  Bind(forward_r(cg.r, q, alpha), WithR)
          IN  Bind(forward_alpha(cg.ndim, cg.rsold, cg.p, q), WithAlpha)
    IN  Bind(Call(cg.AHA, cg.p), WithAHAp)

\* cg_solve: the cost recorded for an iterate
cost(out, AHy, lamda) ==
    CAdd(CMul(<<1, 0, 2>>, Norm2(TAdd(out, TNeg(AHy)))), CMul(Cx(lamda, 0), Norm2(out)))

\* a slip that would keep the caller's array as the initial guess
KeepGuess(x) == x

\* cg_solve: initialize (input = 0 * input)
ZeroGuess(x) == TScale(Zero, x)

\* a handler that would swallow the exception and leave the loop
Swallowed(e) == [pc |-> "break", raised |-> ""]

\* output = CG(input) when forward raises e: the loop has no handler, e leaves
\* cg_solve as it is
Unhandled(e) == [pc |-> "raised", raised |-> e]

\* a slip that would hand back the tensor whatever the input was
NeverNumpy(flag) == "Tensor"

\* cast back to numpy if required: the type of the array returned
CastBack(flag) == IF flag THEN "ndarray" ELSE "Tensor"

\* if device is None: device = idevice
Device(device, idevice) == IF device = NoDevice THEN idevice ELSE device

\* back to original device: output = output.to(device)
BackTo(idevice, device) == device

\* a slip that would leave the loop's input as it was
KeepInput(x, out) == x

\* update variable (input = output.clone()): the iterate the next step starts from
Update(x, out) == out

\* a slip that would keep one solver object for every call
Global(s) == 1

\* CG = CGStep(_AHA, AHy, ndim, tol): the object call s builds for itself and
\* steps in its loop
Self(s) == s

\* cg_solve up to the loop: casts, Tikhonov term, CGStep, zero initial guess
Start(s) ==
    /\ pc[s] = "call"
    /\ LET AHy == input[s]
           _AHA == Tikhonov(args[s].AHA, args[s].lamda)
       IN  /\ CG' = [CG EXCEPT ![Self(s)] = CGStep(_AHA, AHy, args[s].ndim, args[s].tol)]
           /\ input' = [input EXCEPT ![s] = ZeroGuess(input[s])]
    /\ history' = [history EXCEPT ![s] = <<>>]
    /\ pc' = [pc EXCEPT ![s] = "loop"]
    /\ isnumpy' = [isnumpy EXCEPT ![s] = (container[s].input = "ndarray")]
    /\ container' = [container EXCEPT ![s].input = "Tensor",
                                      ![s].idevice = container[s].on_input,
                                      ![s].device = Device(container[s].device,
                                                           container[s].on_input),
                                      ![s].on_input = Device(container[s].device,
                                                             container[s].on_input)]
    /\ UNCHANGED <<args, output, n, AHAp, applied, raised>>
    /\ UNCHANGED package

\* one iteration of cg_solve's loop
Iterate(s) ==
    /\ pc[s] = "loop"
    /\ n[s] < args[s].niter
    /\ n' = [n EXCEPT ![s] = n[s] + 1]
    /\ UNCHANGED package
    /\ IF ~IsCallable(CG[Self(s)].AHA)
       THEN \* self.AHA(self.p): TypeError, 'Tensor' object is not callable
            /\ pc' = [pc EXCEPT ![s] = Unhandled("TypeError").pc]
            /\ raised' = [raised EXCEPT ![s] = Unhandled("TypeError").raised]
            /\ UNCHANGED <<args, input, output, history, CG, AHAp, applied,
                           container, isnumpy>>
       ELSE IF Raises(CG[Self(s)].AHA, n[s] + 1)
       THEN \* self.AHA(self.p) raises: forward is left before any assignment
            /\ pc' = [pc EXCEPT ![s] = Unhandled(CG[Self(s)].AHA.fault.exc).pc]
            /\ raised' = [raised EXCEPT ![s] = Unhandled(CG[Self(s)].AHA.fault.exc).raised]
            /\ UNCHANGED <<args, input, output, history, CG, AHAp, applied,
                           container, isnumpy>>
       ELSE \E f \in {forward(CG[Self(s)], input[s])} :
            \E stop \in {check_convergence(f.CG.rsnew, f.CG.tol)} :
                /\ output' = [output EXCEPT ![s] = f.output]
                /\ CG' = [CG EXCEPT ![Self(s)] = f.CG]
                /\ AHAp' = [AHAp EXCEPT ![s] = f.AHAp]
                /\ applied' = [applied EXCEPT ![s] = applied[s] + 1]
                /\ pc' = [pc EXCEPT ![s] = IF stop THEN "break" ELSE "loop"]
                /\ input' = [input EXCEPT ![s] =
                       IF stop THEN input[s] ELSE Update(input[s], f.output)]
                /\ history' = [history EXCEPT ![s] =
                       IF ~stop /\ args[s].save_history
                       THEN Append(history[s], cost(f.output, CG[Self(s)].AHy, args[s].lamda))
                       ELSE history[s]]
                /\ container' = [container EXCEPT ![s].output = "Tensor",
                                                  ![s].on_output = container[s].on_input]
                /\ UNCHANGED <<args, raised, isnumpy>>

\* cg_solve after the loop: back to the original device, return
Return(s) ==
    /\ \/ pc[s] = "break"
       \/ pc[s] = "loop" /\ n[s] = args[s].niter
    /\ IF output[s] = None
       THEN \* output = output.to(device): UnboundLocalError, the loop never ran
            /\ pc' = [pc EXCEPT ![s] = "raised"]
            /\ raised' = [raised EXCEPT ![s] = "UnboundLocalError"]
            /\ UNCHANGED container
       ELSE /\ pc' = [pc EXCEPT ![s] = "returned"]
            /\ container' = [container EXCEPT
                   ![s].output = CastBack(isnumpy[s]),
                   ![s].on_output = IF isnumpy[s] THEN "cpu"
                                    ELSE BackTo(container[s].idevice, container[s].device)]
            /\ UNCHANGED raised
    /\ UNCHANGED <<args, input, output, history, n, CG, AHAp, applied, isnumpy>>
    /\ UNCHANGED package

Starts == \E s \in Solves : Start(s)

Iterates == \E s \in Solves : Iterate(s)

Returns == \E s \in Solves : Return(s)

Next == Starts \/ Iterates \/ Returns

Spec == Init /\ [][Next]_vars

\* ------------------------------------------- solves run one after the other

Done(s) == pc[s] \in {"returned", "raised"}

\* every solve before s has ended
Turn(s) == \A t \in Solves : t < s => Done(t)

StartsInTurn == \E s \in Solves : Turn(s) /\ Start(s)

IteratesInTurn == \E s \in Solves : Turn(s) /\ Iterate(s)

ReturnsInTurn == \E s \in Solves : Turn(s) /\ Return(s)

NextInTurn == StartsInTurn \/ IteratesInTurn \/ ReturnsInTurn

\* a call with a dense matrix, then the same call with the callable x -> M @ x
InitDense ==
    \E c \in Calls :
        /\ c.AHA.rep = "tensor"
        /\ BeforeCall(<<c, [c EXCEPT !.AHA = Callable(c.AHA.M)]>>)

SpecDense == InitDense /\ [][NextInTurn]_vars

\* a call on a batch of several elements, then the same call on every batch
\* element alone: solve 1 + k has the input <<input[k]>>
InitBatch ==
    \E c \in Calls :
        /\ Len(c.input) > 1
        /\ c.AHA.rep = "callable"
        /\ ~c.save_history
        /\ BeforeCall(<<c>> \o [k \in 1..Len(c.input) |-> [c EXCEPT !.input = <<c.input[k]>>]])

SpecBatch == InitBatch /\ [][NextInTurn]_vars

\* the exceptions an operator may raise
Excs == {"ValueError", "RuntimeError"}

\* a call whose operator raises at one of its calls
InitFaulty ==
    \E c \in Calls : \E at \in 1..MaxIter : \E exc \in Excs :
        /\ Len(c.input) = 1
        /\ c.AHA.rep # "tensor"
        /\ BeforeCall(<<[c EXCEPT !.AHA = Faulty(c.AHA, at, exc)]>>)

SpecFaulty == InitFaulty /\ [][Next]_vars

\* the array types cg_solve accepts as input
Containers == {"ndarray", "Tensor"}

\* a call on a numpy array or on a torch tensor
InitContainer ==
    \E c \in Calls : \E type \in Containers :
        /\ Len(c.input) = 1
        /\ ~c.save_history
        /\ BeforeCallAs(<<c>>, <<type>>)

SpecContainer == InitContainer /\ [][Next]_vars

\* ------------------------------------------------------- solves on devices
Devices == {"cpu", "cuda:0"}

\* a call on a numpy array, or on a torch tensor kept on either device, with
\* and without the argument device
InitDevice ==
    \E c \in Calls : \E type \in Containers : \E on \in Devices :
    \E device \in {NoDevice} \cup Devices :
        /\ Len(c.input) = 1
        /\ ~c.save_history /\ c.tol = NoTol /\ c.ndim = 1
        /\ type = "ndarray" => on = "cpu"
        /\ CalledOn(<<c>>, <<type>>, <<on>>, <<device>>) /\ Idle

SpecDevice == InitDevice /\ [][Next]_vars

\* solves 1 and 2 run at once; solve 3, then solve 4, runs when all before it
\* have ended
Ready(s) == s <= 2 \/ Turn(s)

StartsShared == \E s \in Solves : Ready(s) /\ Start(s)

IteratesShared == \E s \in Solves : Ready(s) /\ Iterate(s)

ReturnsShared == \E s \in Solves : Ready(s) /\ Return(s)

NextShared == StartsShared \/ IteratesShared \/ ReturnsShared

\* two calls that share one operator (a plain function), interleaved, followed
\* by the same two calls made one at a time: solve s + 2 repeats solve s
InitShared ==
    \E c \in Calls : \E b \in Vecs : \E k \in 1..MaxIter :
        /\ Len(c.input) = 1
        /\ c.AHA.rep = "callable"
        /\ c.niter > 0
        /\ c.ndim = 2
        /\ ~c.save_history
        /\ LET d == [c EXCEPT !.input = <<b>>, !.niter = k]
           IN  BeforeCall(<<c, d, c, d>>)

SpecShared == InitShared /\ [][NextShared]_vars

\* ------------------------------------------------------------ NUFFT calls
\* One image and one set of k-space data are transformed in turn by nufft,
\* nufft with a basis, nufft_adjoint and nufft_adjoint with a basis.

\* no solve is under way
NoSolve == Called(<<>>, <<>>)

\* the image holding 1 at the centre index of every axis and 0 elsewhere
RECURSIVE Impulse(_)
Impulse(D) ==
    IF D = 0 THEN One
    ELSE LET At(m) == IF m = 0 THEN Impulse(D - 1) ELSE Full(Zero, D - 1)
         IN  Map(At, Axis)

\* an image whose value changes from pixel to pixel
RECURSIVE Pattern(_, _, _)
Pattern(D, re, im) ==
    IF D = 0 THEN Cx(re, im)
    ELSE LET At(m) == Pattern(D - 1, re + m, m - im) IN Map(At, Axis)

Images(D) == {Impulse(D), Pattern(D, 1, 0)}

\* k-space data of m samples: all ones, or changing from sample to sample
Ones(m) == Fill(Range(1, m), One)

Graded(m) == LET At(j) == Cx((j % 3) - 1, j % 2) IN Map(At, Range(1, m))

\* samples along the diagonal of k-space, on and between the grid points
Diagonal(D) == LET At(h) == Fill(Range(1, D), h) IN Map(At, <<-3, -1, 0, 1, 2>>)

Trajectories(D) == {generate_coordinates(D), Diagonal(D)}

\* the factor batch element b (slice and coil) and contrast c carry: the same
\* data everywhere, or other data in every element
Gain(graded, b, c) == IF graded THEN Cx(b, c - 1) ELSE One

\* nb batch elements of nc contrasts: element b holds in contrast c the array
\* data[c], of D dimensions, times its factor
Batch(nb, nc, graded, D, data) ==
    LET Element(b) == LET Contrast(c) == AScale(Gain(graded, b, c), data[c], D)
                      IN  Map(Contrast, Range(1, nc))
    IN  Map(Element, Range(1, nb))

\* the identity basis and a basis that mixes the contrasts
Eye(nc) == LET Row(c) == LET At(k) == IF k = c THEN One ELSE Zero IN Map(At, Range(1, nc))
           IN  Map(Row, Range(1, nc))

Mixing(nc) == LET Row(c) == LET At(k) == Cx(c, k - c) IN Map(At, Range(1, nc))
              IN  Map(Row, Range(1, nc))

Bases(nc) == {Eye(nc), Mixing(nc)}

InitNufft ==
    /\ NoSolve /\ design = None /\ phantom = None /\ NoOthers
    /\ \E D \in {1, 2, 3} : \E nc \in {1, 2} : \E nb \in {1, 2} :
       \E coord \in [1..nc -> Trajectories(D)] :
       \E x \in Images(D) : \E ones \in BOOLEAN : \E graded \in BOOLEAN :
       \E basis \in Bases(nc) :
          transform =
            [ndim |-> D, coord |-> coord, basis |-> basis,
             image_in |-> Batch(nb, nc, graded, D, [c \in 1..nc |-> x]),
             kdata_in |-> Batch(nb, nc, graded, 1,
                                [c \in 1..nc |-> IF ones THEN Ones(Len(coord[c]))
                                                 ELSE Graded(Len(coord[c]))]),
             kdata_out |-> None, kdata_lowrank |-> None,
             image_out |-> None, image_lowrank |-> None]

\* kdata_out = deepmr.nufft(image_in, coord)
Nufft ==
    /\ transform # None /\ transform.kdata_out = None
    /\ transform' = [transform EXCEPT !.kdata_out =
           nufft(transform.image_in, transform.coord, None, transform.ndim)]
    /\ UNCHANGED <<solver, design, phantom, others>>

\* kdata_out = deepmr.nufft(image_in, coord, basis_adjoint)
NufftLowrank ==
    /\ transform # None /\ transform.kdata_out # None /\ transform.kdata_lowrank = None
    /\ transform' = [transform EXCEPT !.kdata_lowrank =
           nufft(transform.image_in, transform.coord, transform.basis, transform.ndim)]
    /\ UNCHANGED <<solver, design, phantom, others>>

\* image_out = deepmr.nufft_adjoint(dcf * kdata_in, shape, coord), with dcf = 1
NufftAdjoint ==
    /\ transform # None /\ transform.kdata_lowrank # None /\ transform.image_out = None
    /\ transform' = [transform EXCEPT !.image_out =
           nufft_adjoint(transform.kdata_in, transform.coord, None, transform.ndim)]
    /\ UNCHANGED <<solver, design, phantom, others>>

\* image_out = deepmr.nufft_adjoint(dcf * kdata_in, shape, coord, basis)
NufftAdjointLowrank ==
    /\ transform # None /\ transform.image_out # None /\ transform.image_lowrank = None
    /\ transform' = [transform EXCEPT !.image_lowrank =
           nufft_adjoint(transform.kdata_in, transform.coord, transform.basis, transform.ndim)]
    /\ UNCHANGED <<solver, design, phantom, others>>

NextNufft == Nufft \/ NufftLowrank \/ NufftAdjoint \/ NufftAdjointLowrank

SpecNufft == InitNufft /\ [][NextNufft]_vars

\* --------------------------------------------- calls of radial and rosette
\* the largest in-plane size, number of contrasts, of echoes and of views
MaxInPlane == 2

MaxContrasts == 3

MaxEchoes == 2

MaxViews == 3

\* shape given as a scalar or as a list of one, two or three entries
Shapes ==
    {[scalar |-> TRUE, value |-> m] : m \in 1..MaxInPlane}
      \cup {[scalar |-> FALSE, value |-> <<m>>] : m \in 1..MaxInPlane}
      \cup {[scalar |-> FALSE, value |-> <<m, nc>>] : m \in 1..MaxInPlane, nc \in 1..MaxContrasts}
      \cup {[scalar |-> FALSE, value |-> <<m, nc, ne>>] :
               m \in 1..MaxInPlane, nc \in 1..MaxContrasts, ne \in 1..MaxEchoes}

InitDesign ==
    /\ NoSolve /\ transform = None /\ phantom = None /\ NoOthers
    /\ \E fn \in {"radial", "rosette"} : \E shape \in Shapes :
       \E nviews \in {None} \cup {<<k>> : k \in 1..MaxViews} :
          design = [fn |-> fn, shape |-> shape, nviews |-> nviews, pc |-> "call",
                    traj |-> None, head |-> None, raised |-> ""]

\* the end of a designer that built traj: head = Header(...); head.torch();
\* return head
Built(traj) ==
    \E head \in {post_init(Header("mtx", "t", traj, "dcf", "TE"))} :
        design' = [design EXCEPT !.traj = traj, !.head = head.self, !.raised = head.exc,
                                 !.pc = IF head.exc = "" THEN "returned" ELSE "raised"]

\* head = deepmr.radial(shape, nviews)
Radial ==
    /\ design # None /\ design.pc = "call" /\ design.fn = "radial"
    /\ Built(radial_traj(design.shape, design.nviews))
    /\ UNCHANGED <<solver, transform, phantom, others>>

\* head = deepmr.rosette(shape, nviews)
Rosette ==
    /\ design # None /\ design.pc = "call" /\ design.fn = "rosette"
    /\ Built(rosette_traj(design.shape, design.nviews))
    /\ UNCHANGED <<solver, transform, phantom, others>>

NextDesign == Radial \/ Rosette

SpecDesign == InitDesign /\ [][NextDesign]_vars

\* ------------------------------------------------- calls of custom_phantom
\* the labels of the segmentations and the largest number of rows
Labels == {-1, 0, 1, 2}

MaxRows == 2

\* the 2-D arrays of labels with up to MaxRows rows, of one and two columns
Segmentations ==
    UNION {[1..ny -> [1..nx -> Labels]] : ny \in 1..MaxRows, nx \in {1, 2}}

\* dictionaries of one and two properties, of two and three classes, with
\* values that float32 holds and values that it does not
Properties ==
    {[key \in {"T1"} |-> <<5, 7>>],
     [key \in {"M0", "T1"} |-> IF key = "M0" THEN <<1, 2, 3>> ELSE <<500, 1000, 1500>>],
     [key \in {"M0", "T1"} |->
         IF key = "M0" THEN <<1, 2, 3>>
         ELSE <<Float32Exact + 1, Float32Exact + 2, Float32Exact + 3>>]}

InitPhantom ==
    /\ NoSolve /\ transform = None /\ design = None /\ NoOthers
    /\ \E dtype \in {"int64", "float32"} : \E data \in Segmentations :
       \E properties \in Properties :
          phantom = [segmentation |-> [dtype |-> dtype, data |-> data],
                     properties |-> properties, pc |-> "call", raised |-> "",
                     phantom |-> None]

\* phantom = deepmr.custom_phantom(segmentation, properties)
CustomPhantom ==
    /\ phantom # None /\ phantom.pc = "call"
    /\ \E result \in {custom_phantom(phantom.segmentation, phantom.properties)} :
          phantom' = [phantom EXCEPT !.phantom = result.phantom, !.raised = result.exc,
                                     !.pc = IF result.exc = "" THEN "returned" ELSE "raised"]
    /\ UNCHANGED <<solver, transform, design, others>>

NextPhantom == CustomPhantom

SpecPhantom == InitPhantom /\ [][NextPhantom]_vars

\* ------------------------------------------------- the claims' vocabulary

\* the tensor of zeros shaped like t
ZerosLike(t) == [b \in DOMAIN t |-> [i \in DOMAIN t[b] |-> Zero]]

ConjTimes(y, z) == CMul(CConj(y), z)

\* sum of conj(u[j]) * v[j] over j in 1..m
RECURSIVE ConjSum(_, _, _)
ConjSum(u, v, m) ==
    IF m = 0 THEN Zero ELSE CAdd(ConjSum(u, v, m - 1), ConjTimes(u[m], v[m]))

\* <a, b>: conj(a)*b summed over the trailing nd axes of each batch element of
\* tensors of shape (B, N, 1), the value given at every entry it belongs to
InnerProduct(nd, a, b) ==
    LET Products(u, v) == Zip(ConjTimes, u, v)
        Sum(u, v) == Fill(u, ConjSum(u, v, Len(u)))
    IN  IF nd = 1 THEN Zip(Products, a, b) ELSE Zip(Sum, a, b)

\* the tensor s + c * t for tensors s, t and a tensor c of scalars
AddScaled(s, c, t) == TAdd(s, TMul(c, t))

IsFinite(t) == \A k \in DOMAIN t : \A i \in DOMAIN t[k] : ~IsNaN(t[k][i])

\* a 2 x 2 matrix that is Hermitian and positive semi-definite
HermitianPSD(M) ==
    /\ M[1][2] = CConj(M[2][1])
    /\ M[1][1][2] = 0 /\ M[2][2][2] = 0
    /\ RLeq(Zero, M[1][1]) /\ RLeq(Zero, M[2][2])
    /\ RLeq(CAbs2(M[1][2]), CMul(M[1][1], M[2][2]))

\* solve s executed a CG step in the transition
Stepped(s) == applied'[s] = applied[s] + 1

\* ---------------------------------------------------------------------- C1
\* C1: when the loop of cg_solve is entered, the iterate is the zero tensor
\* whatever the caller's input, the residual r is the input (AHy), the search
\* direction p equals r, and rsold is <r, r>.
C1_StartsFromZero ==
    \A s \in Solves :
        (pc[s] = "loop" /\ n[s] = 0) =>
            /\ input[s] = ZerosLike(args[s].input)
            /\ CG[s].AHy = args[s].input
            /\ CG[s].r = args[s].input
            /\ CG[s].p = CG[s].r
            /\ CG[s].rsold = InnerProduct(CG[s].ndim, args[s].input, args[s].input)

\* the loop is entered with a complex, nonzero input
C1_Witness ==
    \E s \in Solves :
        /\ pc[s] = "loop" /\ n[s] = 0
        /\ args[s].input = <<<<One, Cx(0, 1)>>, <<One, Cx(2, 0)>>>>
        /\ CG[s].rsold[1][1] = Cx(2, 0)

\* ---------------------------------------------------------------------- C2
\* C2: a CG step computes, from the object's r, p, rsold and the iterate x
\* (input): q = AHA(p), alpha = rsold / <p, q>, x' = x + alpha*p,
\* r' = r - alpha*q, rsnew = Re<r', r'>, p' = r' + (rsnew / rsold)*p with the old
\* rsold, and then rsold = rsnew; the next step starts from x'.
C2_StepUpdate ==
    [][\A s \in Solves : Stepped(s) =>
        \E q \in {AHAp'[s]} :
        \E alpha \in {TDiv(CG[s].rsold, InnerProduct(CG[s].ndim, CG[s].p, q))} :
        \E r1 \in {AddScaled(CG[s].r, TNeg(alpha), q)} :
        \E rsnew \in {TReal(InnerProduct(CG[s].ndim, r1, r1))} :
            /\ q = Call(CG[s].AHA, CG[s].p)
            /\ output'[s] = AddScaled(input[s], alpha, CG[s].p)
            /\ CG'[s].r = r1
            /\ CG'[s].rsnew = rsnew
            /\ CG'[s].p = AddScaled(r1, TDiv(rsnew, CG[s].rsold), CG[s].p)
            /\ CG'[s].rsold = rsnew
            /\ pc'[s] = "loop" => input'[s] = output'[s]
    ]_vars

\* a second step was executed and returned a finite iterate with complex entries
C2_Witness ==
    \E s \in Solves :
        /\ applied[s] = 2
        /\ IsFinite(output[s])
        /\ \E k \in DOMAIN output[s] : \E i \in DOMAIN output[s][k] : output[s][k][i][2] # 0
        /\ CG[s].rsnew # CG[s].AHy

\* ---------------------------------------------------------------------- C3
\* the solve ended and its loop was left by the break of the convergence check
Converged(s) == pc[s] \in {"break", "returned"} /\ check_convergence(CG[s].rsnew, CG[s].tol)

\* C3: a solve whose operator can be applied stops at the first step at which a
\* tolerance is set and sqrt(rsnew) < tol for every batch element, otherwise
\* after exactly niter steps, and then returns its last iterate without raising;
\* the operator is applied once per executed step.
C3_StopsAndReturns ==
    \A s \in Solves :
        (pc[s] # "call" /\ IsCallable(CG[s].AHA)) =>
            /\ applied[s] = n[s]
            /\ n[s] <= args[s].niter
            /\ pc[s] = "break" =>
                   args[s].tol # NoTol /\ check_convergence(CG[s].rsnew, args[s].tol)
            /\ (pc[s] = "loop" /\ n[s] > 0) => ~check_convergence(CG[s].rsnew, args[s].tol)
            /\ pc[s] # "raised"
            /\ (pc[s] = "returned" /\ ~Converged(s)) => n[s] = args[s].niter

\* ---------------------------------------------------------------------- C4
\* every system of the right-hand side b (an entry for ndim = 1, a batch element
\* for ndim = 2) is nonzero
NonzeroSystems(nd, b) ==
    \A k \in DOMAIN b : \A i \in DOMAIN b[k] :
        IF nd = 1 THEN b[k][i] # Zero ELSE \E j \in DOMAIN b[k] : b[k][j] # Zero

\* C4: with AHA the identity (and no Tikhonov term) and a nonzero right-hand
\* side, the iterate after the first iteration is the right-hand side itself.
C4_IdentityOneStep ==
    \A s \in Solves :
        (/\ args[s].AHA.M = Id /\ args[s].lamda = 0
         /\ pc[s] # "call"
         /\ NonzeroSystems(CG[s].ndim, args[s].input)
         /\ applied[s] = 1) => output[s] = args[s].input

\* Scenario C: b = [1, 2], AHA = identity, niter = 1 has returned
C4_Witness ==
    \E s \in Solves :
        /\ args[s].AHA = Callable(Id) /\ args[s].lamda = 0 /\ args[s].niter = 1
        /\ args[s].input = <<<<One, Cx(2, 0)>>>>
        /\ args[s].tol = NoTol
        /\ pc[s] = "returned"
        /\ output[s] = <<<<One, Cx(2, 0)>>>>

\* ---------------------------------------------------------------------- C5
\* C5: when the history is requested, the returned history holds one cost per
\* executed iteration, that of the converging iteration included; in Scenario C
\* it is [0.0].
C5_HistoryPerIteration ==
    \A s \in Solves :
        (args[s].save_history /\ pc[s] = "returned") =>
            /\ Len(history[s]) = applied[s]
            /\ (/\ args[s].AHA.M = Id /\ args[s].lamda = 0 /\ args[s].niter = 1
                /\ args[s].input = <<<<One, Cx(2, 0)>>>>) => history[s] = <<Zero>>

\* ---------------------------------------------------------------------- C6
\* the quadratic cost CG minimises, Re<x, (M + lam*I) x> - 2 Re<b, x>, of every
\* batch element of the iterate x
Objective(M, lam, b, x) ==
    LET Of(Ax) ==
          [k \in DOMAIN x |->
              CAdd(CReal(ConjSum(x[k], Ax[k], Len(x[k]))),
                   CMul(Cx(-2, 0), CReal(ConjSum(b[k], x[k], Len(x[k])))))]
    IN  Bind(TAdd(MatMul(M, x), TScale(Cx(lam, 0), x)), Of)

\* the steps C6 is about: a Hermitian positive semi-definite operator, lamda >= 0,
\* every batch element one system
C6_Case(s) ==
    /\ HermitianPSD(args[s].AHA.M)
    /\ args[s].lamda >= 0
    /\ CG[s].ndim = 2

\* M + lam*I is positive definite, for a Hermitian 2 x 2 matrix M
PositiveDefinite(M, lam) ==
    /\ RLess(Zero, CAdd(M[1][1], Cx(lam, 0)))
    /\ RLess(CAbs2(M[1][2]), CMul(CAdd(M[1][1], Cx(lam, 0)), CAdd(M[2][2], Cx(lam, 0))))

\* C6 as stated, for a plain callable whose regularised operator is even positive
\* definite: the rsnew of a step never exceeds the rsold it started from (the
\* rsnew of the step before, or the initial rsold), wherever it is finite.
C6_ResidualNonIncreasing ==
    [][\A s \in Solves :
        (/\ Stepped(s) /\ C6_Case(s)
         /\ args[s].AHA.rep = "callable"
         /\ PositiveDefinite(args[s].AHA.M, args[s].lamda)) =>
            \A k \in DOMAIN CG[s].rsold :
                ~IsNaN(CG'[s].rsnew[k][1]) => RLeq(CG'[s].rsnew[k][1], CG[s].rsold[k][1])
    ]_vars

\* C6 as amended: a step never increases the quadratic cost of a batch element
\* whose new iterate is finite.
C6_ObjectiveNonIncreasing ==
    [][\A s \in Solves : (Stepped(s) /\ C6_Case(s)) =>
        \E before \in {Objective(args[s].AHA.M, args[s].lamda, args[s].input, input[s])} :
        \E after \in {Objective(args[s].AHA.M, args[s].lamda, args[s].input, output'[s])} :
            \A k \in DOMAIN before : ~IsNaN(after[k]) => RLeq(after[k], before[k])
    ]_vars

\* a step of such a solve raised the squared residual norm above the initial one
\* and returned a finite iterate
C6_Witness ==
    \E s \in Solves :
        /\ applied[s] = 1
        /\ C6_Case(s)
        /\ IsFinite(output[s])
        /\ RLess(InnerProduct(CG[s].ndim, args[s].input, args[s].input)[1][1],
                 CG[s].rsnew[1][1])

\* ---------------------------------------------------------------------- C7
\* C7: the operator value computed in a step is AHA(p) + lamda*p when
\* lamda # 0, for a Linop handle, a callable and a dense matrix alike, and
\* AHA(p) when lamda = 0.
C7_TikhonovOperator ==
    [][\A s \in Solves : Stepped(s) =>
        AHAp'[s] =
            IF args[s].lamda # 0
            THEN AddScaled(MatMul(args[s].AHA.M, CG[s].p),
                           Fill(CG[s].p, Fill(CG[s].p[1], Cx(args[s].lamda, 0))), CG[s].p)
            ELSE MatMul(args[s].AHA.M, CG[s].p)
    ]_vars

\* a step was executed on a dense matrix with a Tikhonov term that changed the
\* operator's value
C7_Witness ==
    \E s \in Solves :
        /\ applied[s] = 1
        /\ args[s].AHA.rep = "tensor"
        /\ args[s].lamda # 0
        /\ AHAp[s] = TAdd(MatMul(args[s].AHA.M, args[s].input), args[s].input)
        /\ AHAp[s] # MatMul(args[s].AHA.M, args[s].input)

\* ---------------------------------------------------------------------- C8
\* C8 (under SpecDense: solve 1 is given a dense matrix M, solve 2 the callable
\* x -> M @ x, all other arguments equal): the dense solve ends as the callable
\* solve does, with the same output and history.
C8_DenseLikeCallable ==
    (Done(1) /\ Done(2)) =>
        /\ pc[1] = pc[2]
        /\ raised[1] = raised[2]
        /\ output[1] = output[2]
        /\ history[1] = history[2]

\* ---------------------------------------------------------------------- C9
\* C9 as stated (under SpecBatch: solve 1 is the batched solve, solve 1 + k the
\* solve of batch element k alone), for a Hermitian positive semi-definite
\* operator, every batch element one system, and a finite batched result: the
\* solution returned for batch element k is the solution returned when it is
\* solved alone.
C9_BatchEqualsAlone ==
    \A k \in 1..Len(args[1].input) :
        (/\ pc[1] = "returned" /\ pc[1 + k] = "returned"
         /\ HermitianPSD(args[1].AHA.M) /\ CG[1].ndim = 2
         /\ IsFinite(output[1])) =>
            output[1][k] = output[1 + k][1]

\* C9 as amended: after as many steps as the batched solve executed, the solve
\* of batch element k alone holds the iterate the batched solve returned for k.
C9_SameStepsSameIterate ==
    \A k \in 1..Len(args[1].input) :
        (pc[1] = "returned" /\ applied[1 + k] = applied[1]) =>
            output[1][k] = output[1 + k][1]

\* both solves executed two steps on a batch of two different elements and hold
\* finite iterates
C9_Witness ==
    /\ pc[1] = "returned" /\ applied[1] = 2 /\ applied[2] = 2
    /\ IsFinite(output[1])
    /\ output[1][1] # output[1][2]
    /\ output[2][1] # ZerosLike(output[2])[1]

\* --------------------------------------------------------------------- C10
\* C10: the number of axes the inner product sums over is the handle's ndim for
\* a Linop and the ndim argument of cg_solve for a callable or a dense matrix.
C10_NdimSource ==
    \A s \in Solves :
        pc[s] # "call" =>
            CG[s].ndim = IF args[s].AHA.rep = "linop" THEN args[s].AHA.ndim
                         ELSE args[s].ndim

\* --------------------------------------------------------------------- C11
\* solve s has come to the call at which its operator raises
Failed(s) == args[s].AHA.fault # NoFault /\ n[s] = args[s].AHA.fault.at

\* C11: once the operator has raised during a step, the solve has ended with
\* that very exception, the failing step has assigned nothing (no iterate of
\* it exists, the operator is not called again), and from then on nothing of
\* the solve changes: no retry, no further step, no return.
C11_ExceptionAborts ==
    /\ [](\A s \in Solves :
            /\ Failed(s) =>
                   /\ pc[s] = "raised"
                   /\ raised[s] = args[s].AHA.fault.exc
                   /\ applied[s] = n[s] - 1
            /\ args[s].AHA.fault # NoFault => n[s] <= args[s].AHA.fault.at)
    /\ [][\A s \in Solves :
            Failed(s) =>
                /\ pc'[s] = pc[s] /\ raised'[s] = raised[s] /\ n'[s] = n[s]
                /\ applied'[s] = applied[s] /\ output'[s] = output[s]
                /\ CG'[s] = CG[s]
         ]_vars

\* an operator has raised at the second step of a solve, after one full step
C11_Witness ==
    \E s \in Solves :
        /\ Failed(s) /\ n[s] = 2 /\ applied[s] = 1
        /\ pc[s] = "raised" /\ raised[s] = "ValueError"
        /\ output[s] # None


\* --------------------------------------------------------------------- C12
\* C12: whenever cg_solve returns, on convergence or after niter iterations,
\* the array it returns has the type of the array it was given.
C12_SameContainer ==
    \A s \in Solves : pc[s] = "returned" => container[s].output = container[s].given

\* a solve given a numpy array has returned a numpy array, after converging
\* at its second step
C12_Witness ==
    \E s \in Solves :
        /\ pc[s] = "returned" /\ container[s].given = "ndarray"
        /\ container[s].output = "ndarray"
        /\ Converged(s) /\ applied[s] = 2


\* --------------------------------------------------------------------- C13
\* the action is a step of solve t
StepOf(t) == pc'[t] # pc[t] \/ n'[t] # n[t]

\* what solve s hands to its caller
Outcome(s) == <<pc[s], raised[s], output[s], history[s], n[s], applied[s]>>

\* C13: of two solves that share an operator and whose steps interleave, each
\* ends as the same call made alone does, and no step of one solve changes
\* the solver object, the iterate or the output of another one.
C13_InterleavedLikeAlone ==
    /\ [](\A s \in {1, 2} : (Done(s) /\ Done(s + 2)) => Outcome(s) = Outcome(s + 2))
    /\ [][\A s \in Solves : \A t \in Solves \ {s} :
            StepOf(t) =>
                /\ CG'[s] = CG[s] /\ input'[s] = input[s] /\ output'[s] = output[s]
                /\ AHAp'[s] = AHAp[s] /\ history'[s] = history[s]
         ]_vars

\* two solves with different right-hand sides are in their loops at once,
\* each after a step of its own
C13_Witness ==
    /\ pc[1] = "loop" /\ pc[2] = "loop"
    /\ applied[1] = 1 /\ applied[2] = 1
    /\ args[1].input # args[2].input
    /\ CG[1].r # CG[2].r
    /\ n[1] < args[1].niter /\ n[2] < args[2].niter


\* --------------------------------------------------------------------- C14
\* a caller's own loop, x <- step(x), run k times on the step object cg
RECURSIVE StepByHand(_, _, _)
StepByHand(cg, x, k) ==
    IF k = 0 THEN x
    ELSE LET Rest(f) == StepByHand(f.CG, f.output, k - 1)
         IN  Bind(forward(cg, x), Rest)

\* the iterate of a caller who builds CGStep(AHA, AHy, ndim) and steps it k
\* times from x = 0
DriveByHand(AHA, AHy, ndim, k) ==
    StepByHand(CGStep(AHA, AHy, ndim, NoTol), ZerosLike(AHy), k)

\* C14: a cg_solve (without Tikhonov term) that ran all of its niter >= 1
\* iterations returns the iterate a caller obtains by building CGStep(AHA, AHy,
\* ndim) and stepping it niter times from x = 0.
C14_LikeManualStepping ==
    \A s \in Solves :
        (/\ pc[s] = "returned" /\ applied[s] = args[s].niter
         /\ args[s].lamda = 0) =>
            output[s] = DriveByHand(args[s].AHA, args[s].input, args[s].ndim, args[s].niter)

\* a solve with a tolerance has run both of its two iterations and returned a
\* finite iterate other than its right-hand side
C14_Witness ==
    \E s \in Solves :
        /\ pc[s] = "returned" /\ applied[s] = 2 /\ args[s].niter = 2
        /\ args[s].lamda = 0 /\ args[s].tol # NoTol
        /\ IsFinite(output[s])
        /\ output[s] # args[s].input


\* ------------------------------------------------------- C15 to C18: NUFFT
\* the standard inner product <u, v> of two sequences of numbers: the sum of
\* conj(u[j]) * v[j]
Braket(u, v) == LET Term(y, z) == CMul(CConj(y), z) IN SumSeq(Zip(Term, u, v))

\* <u, v> for the k-space data of one batch element, over contrasts and samples
KBraket(u, v) == Braket(Flatten(u), Flatten(v))

\* <u, v> for the images of one batch element, over contrasts and pixels
IBraket(u, v, D) ==
    LET Pixels(x) == Ravel(x, D) IN Braket(Flatten(Map(Pixels, u)), Flatten(Map(Pixels, v)))

\* the number of grid points, npix ** D
RECURSIVE GridSize(_)
GridSize(D) == IF D = 0 THEN 1 ELSE npix * GridSize(D - 1)

\* all four transforms have been computed
Transformed ==
    /\ transform # None
    /\ transform.kdata_out # None /\ transform.kdata_lowrank # None
    /\ transform.image_out # None /\ transform.image_lowrank # None

\* <degrid(G), y> = <G, gridding(y)> for the image G read as a grid and the
\* samples y of every batch element and contrast
GriddingIsTranspose ==
    \A b \in DOMAIN transform.image_in : \A c \in DOMAIN transform.coord :
        Braket(degrid(transform.image_in[b][c], transform.coord[c]), transform.kdata_in[b][c])
          = Braket(Ravel(transform.image_in[b][c], transform.ndim),
                   Ravel(gridding(transform.kdata_in[b][c], transform.coord[c],
                                  transform.ndim), transform.ndim))

Elements == {<<b, c>> : b \in DOMAIN transform.image_in, c \in DOMAIN transform.coord}

\* C16: the forward NUFFT of the unit impulse at the centre index holds 1 at
\* every k-space sample, wherever the sample lies, in 1-D, 2-D and 3-D and in
\* every batch element and contrast on its own.
C16_ImpulseGivesOnes ==
    (transform # None /\ transform.kdata_out # None) =>
        \A e \in Elements :
            transform.image_in[e[1]][e[2]] = Impulse(transform.ndim) =>
                \A j \in DOMAIN transform.coord[e[2]] :
                    transform.kdata_out[e[1]][e[2]][j] = One

\* 3-D impulses in two batch elements of two contrasts have been transformed
\* to samples between the grid points, and the last element holds ones
C16_Witness ==
    /\ transform # None /\ transform.kdata_out # None
    /\ transform.ndim = 3 /\ Len(transform.image_in) = 2 /\ Len(transform.coord) = 2
    /\ transform.coord[2] = Diagonal(3)
    /\ \A e \in Elements : transform.image_in[e[1]][e[2]] = Impulse(3)
    /\ transform.kdata_out[2][2] = Ones(Len(Diagonal(3)))

C18_IdentityBasis ==
    (Transformed /\ transform.basis = Eye(Len(transform.coord))) =>
        /\ transform.kdata_lowrank = transform.kdata_out
        /\ transform.image_lowrank = transform.image_out

\* both directions have been computed with the identity basis for two
\* contrasts that hold different data and are sampled differently
C18_Witness ==
    /\ Transformed
    /\ Len(transform.coord) = 2 /\ transform.basis = Eye(2)
    /\ transform.coord[1] # transform.coord[2]
    /\ transform.image_in[1][1] # transform.image_in[1][2]
    /\ transform.kdata_out[1][1] # transform.kdata_out[1][2]
    /\ transform.image_lowrank[1][1] # transform.image_lowrank[1][2]


\* ---------------------------------------------------------------------- C19
\* the shape (in-plane, contrasts, echoes) and the number of views of the call
DesignShape == expand_shape(design.shape)

DesignViews == default_views(DesignShape, design.nviews)

\* in traj every echo e of contrast c holds at view v the interleaf rotated by
\* v * ncontrasts + c increments of the pseudo golden angle, and the leading
\* axis has ncontrasts * nechoes entries
ContrastFirst(traj) ==
    /\ Len(traj) = DesignShape[2] * DesignShape[3]
    /\ \A c \in 0..(DesignShape[2] - 1) : \A e \in 0..(DesignShape[3] - 1) :
           /\ Len(traj[c * DesignShape[3] + e + 1]) = DesignViews
           /\ \A v \in 0..(DesignViews - 1) :
                  traj[c * DesignShape[3] + e + 1][v + 1].angle
                    = CMul(Cx(v * DesignShape[2] + c, 0), dphi)

\* the array the designer built before it made its Header is contrast first
BuiltContrastFirst ==
    (design # None /\ design.pc # "call") => ContrastFirst(design.traj)

PhantomReturned == phantom # None /\ phantom.pc = "returned"

\* the voxels of the segmentation
Voxels ==
    {<<r, c>> : r \in DOMAIN phantom.segmentation.data,
                c \in DOMAIN phantom.segmentation.data[1]}

\* the phantom has the keys of properties and every map the shape of the
\* segmentation
SameKeysAndShape ==
    /\ DOMAIN phantom.phantom = DOMAIN phantom.properties
    /\ \A key \in DOMAIN phantom.properties :
           /\ DOMAIN phantom.phantom[key] = DOMAIN phantom.segmentation.data
           /\ \A r \in DOMAIN phantom.segmentation.data :
                  DOMAIN phantom.phantom[key][r] = DOMAIN phantom.segmentation.data[r]

\* C20 as stated: for every property key the phantom holds a map of the shape
\* of the segmentation in which every voxel holds properties[key][label],
\* label being the segmentation value of the voxel.
C20_VoxelHoldsProperty ==
    PhantomReturned =>
        /\ SameKeysAndShape
        /\ \A key \in DOMAIN phantom.properties : \A x \in Voxels :
               phantom.phantom[key][x[1]][x[2]]
                 = Index(phantom.properties[key], phantom.segmentation.data[x[1]][x[2]])

\* C20 as amended: for every property key the phantom holds a map of the shape
\* of the segmentation in which every voxel holds properties[key][label]
\* rounded to float32, label being the segmentation value of the voxel.
C20_VoxelHoldsFloat32 ==
    PhantomReturned =>
        /\ SameKeysAndShape
        /\ \A key \in DOMAIN phantom.properties : \A x \in Voxels :
               phantom.phantom[key][x[1]][x[2]]
                 = float32(Index(phantom.properties[key],
                                 phantom.segmentation.data[x[1]][x[2]]))

\* a phantom of two properties has been returned for a 2 by 2 segmentation of
\* three classes, one of them labelled from the end of the list, and a voxel
\* holds a value that float32 rounded
C20_Witness ==
    /\ PhantomReturned
    /\ DOMAIN phantom.properties = {"M0", "T1"}
    /\ phantom.segmentation.data = <<<<0, 1>>, <<-1, 0>>>>
    /\ phantom.phantom["M0"] = <<<<1, 2>>, <<3, 1>>>>
    /\ phantom.phantom["T1"][1][1] = Float32Exact
    /\ phantom.properties["T1"][1] = Float32Exact + 1


\* ---------------------------------------------------------------------- C23
\* the entries <<b, i>> of solve s at which the next step divides by zero:
\* rsold or <p, AHA p> is exactly zero there
ZeroDenominators(s) ==
    LET q == Call(CG[s].AHA, CG[s].p)
        pq == dot(CG[s].ndim, CG[s].p, q)
    IN  {e \in {<<b, i>> : b \in DOMAIN input[s], i \in DOMAIN input[s][1]} :
            CG[s].rsold[e[1]][e[2]] = Zero \/ pq[e[1]][e[2]] = Zero}

\* solve s is about to run a step of an operator that can be applied
AboutToStep(s) ==
    /\ pc[s] = "loop" /\ n[s] < args[s].niter
    /\ IsCallable(CG[s].AHA) /\ ~Raises(CG[s].AHA, n[s] + 1)

\* C23: a step whose rsold or <p, AHA p> is exactly zero still divides: no
\* error is raised, the solve is not stopped, and the iterate of the step is
\* not finite where the divisor was zero; the value stays in the iterate up
\* to the return.
C23_ZeroDenominatorUnguarded ==
    /\ [][\A s \in Solves :
            (AboutToStep(s) /\ n'[s] = n[s] + 1) =>
                \A e \in ZeroDenominators(s) :
                    /\ raised'[s] = "" /\ pc'[s] = "loop"
                    /\ applied'[s] = applied[s] + 1
                    /\ IsNaN(output'[s][e[1]][e[2]])]_vars
    /\ [][\A s \in Solves :
            (pc[s] \in {"loop", "break"} /\ output[s] # None /\ pc'[s] # "raised") =>
                \A b \in DOMAIN output[s] : \A i \in DOMAIN output[s][b] :
                    IsNaN(output[s][b][i]) => IsNaN(output'[s][b][i])]_vars

\* a solve with a tolerance has returned after two steps: the first batch
\* element had reached a zero residual after the first step and holds a
\* non-finite iterate, the second one is finite
C23_Witness ==
    \E s \in Solves :
        /\ pc[s] = "returned" /\ n[s] = 2 /\ args[s].tol # NoTol
        /\ Len(output[s]) = 2
        /\ \A i \in DOMAIN output[s][1] : IsNaN(output[s][1][i])
        /\ \A i \in DOMAIN output[s][2] : ~IsNaN(output[s][2][i])
        /\ \A i \in DOMAIN input[s][1] : CG[s].AHy[1][i] # Zero


\* ---------------------------------------------------------------------- C24
\* C24: the output cg_solve returns is on the device its input was on when it
\* was passed in, also when the argument device names another device.
C24_BackOnOriginalDevice ==
    \A s \in Solves : pc[s] = "returned" => container[s].on_output = container[s].on_given

\* ---------------------------------------------------------------------- C25
\* C25: cg_solve with niter = 0 applies the operator zero times, ends at once
\* and returns the zero initial guess with an empty history.
C25_NoIterations ==
    \A s \in Solves :
        (args[s].niter = 0 /\ pc[s] \notin {"call", "loop"}) =>
            /\ applied[s] = 0
            /\ pc[s] = "returned"
            /\ output[s] = ZeroGuess(args[s].input)
            /\ history[s] = <<>>


\* ---------------------------------------------------------------------- C26
\* the iterate of solve s: the initial guess before the first step, then the
\* output of the last step
Iterate_x(s) == IF n[s] = 0 THEN input[s] ELSE output[s]

\* AHy - (AHA + lamda * I)(x) for the iterate x of solve s, with the matrix and
\* the lamda the caller gave
TrueResidual(s) ==
    TAdd(CG[s].AHy,
         TNeg(TAdd(MatMul(args[s].AHA.M, Iterate_x(s)),
                   TScale(Cx(args[s].lamda, 0), Iterate_x(s)))))

\* the solves in which every batch element is one system: ndim = 2 for the
\* solver and for the operator, history not saved
InitResidual ==
    \E c \in Calls :
        /\ c.ndim = 2 /\ NdimAttr(c.AHA) \in {0, 2} /\ ~c.save_history
        /\ BeforeCall([s \in {1} |-> c])

SpecResidual == InitResidual /\ [][Next]_vars

\* solve s is in its loop or has left it, with an operator that can be applied
\* and that acts on the axes the solver reduces (every batch element is one
\* system)
Solving(s) ==
    /\ pc[s] \in {"loop", "break", "returned"}
    /\ IsCallable(CG[s].AHA)
    /\ CG[s].ndim = 2

\* Re<r, r> of the stored residual of solve s
ResidualNorm(s) == TReal(dot(CG[s].ndim, CG[s].r, CG[s].r))

\* C26 as stated: in every state of a solve from the start of its loop, the
\* stored residual is finite and equals AHy - (AHA + lamda * I)(x) for the
\* iterate x, and rsold equals Re<r, r>.
C26_ResidualInvariant ==
    \A s \in Solves :
        Solving(s) =>
            /\ IsFinite(CG[s].r) /\ IsFinite(CG[s].rsold)
            /\ CG[s].r = TrueResidual(s)
            /\ CG[s].rsold = ResidualNorm(s)

\* C26 as amended: in every state of a solve from the start of its loop,
\* wherever the stored residual is finite it equals AHy - (AHA + lamda * I)(x)
\* for the iterate x, and wherever rsold is finite it equals Re<r, r>.
C26_ResidualInvariantWhereFinite ==
    \A s \in Solves :
        Solving(s) =>
            \A b \in DOMAIN CG[s].r : \A i \in DOMAIN CG[s].r[b] :
                /\ ~IsNaN(CG[s].r[b][i]) => CG[s].r[b][i] = TrueResidual(s)[b][i]
                /\ ~IsNaN(CG[s].rsold[b][i]) => CG[s].rsold[b][i] = ResidualNorm(s)[b][i]

\* two steps of a regularised solve have run, the iterate is not zero and the
\* stored residual is finite and not zero
C26_Witness ==
    \E s \in Solves :
        /\ Solving(s)
        /\ pc[s] = "loop" /\ n[s] = 2 /\ args[s].lamda # 0
        /\ IsFinite(CG[s].r) /\ IsFinite(output[s])
        /\ \E b \in DOMAIN CG[s].r : \E i \in DOMAIN CG[s].r[b] :
               CG[s].r[b][i] # Zero /\ output[s][b][i] # Zero

\* ------------------------------------------------ construction of a Header
\* Header(shape, TE=TE) and Header(shape, TE=TE, _spacing=_spacing): the
\* dataclass assigns the fields, then runs __post_init__.

\* the spacings a caller gives: 1, 2 and 1/2 (mm)
Spacings == {One, Cx(2, 0), Norm(1, 0, 2)}

\* the largest entry of the shape of a Header
MaxHeaderShape == 2

InitHeader ==
    /\ NoSolve /\ transform = None /\ design = None /\ phantom = None
    /\ bart = None /\ states = None /\ rawdata = None /\ sorting = None /\ denoiser = None
    /\ \E nz \in 1..MaxHeaderShape : \E ny \in 1..MaxHeaderShape : \E nx \in 1..MaxHeaderShape :
       \E TE \in {None, <<One>>} : \E _spacing \in {None} \cup Spacings :
          header = [shape |-> <<nz, ny, nx>>, TE |-> TE, _spacing |-> _spacing,
                    pc |-> "call", self |-> None, raised |-> ""]

\* head = Header(shape, TE=TE, _spacing=_spacing), _spacing = None being the
\* declared default
Construct ==
    /\ header # None /\ header.pc = "call"
    /\ \E head \in {post_init([Header(header.shape, None, None, None, header.TE)
                                 EXCEPT !._spacing = header._spacing])} :
          header' = [header EXCEPT !.self = head.self, !.raised = head.exc,
                                   !.pc = IF head.exc = "" THEN "returned" ELSE "raised"]
    /\ UNCHANGED <<solver, transform, design, phantom>>
    /\ UNCHANGED <<bart, states, rawdata, sorting, denoiser>>

NextHeader == Construct

SpecHeader == InitHeader /\ [][NextHeader]_vars

\* ---------------------------------------------------------------- C29
\* C29: a Header constructed without an explicit _spacing (the default None)
\* completes its initialisation and ends with a _spacing that is a number,
\* not None.
C29_DefaultSpacingCompletes ==
    (header # None /\ header.pc # "call" /\ header._spacing = None) =>
        /\ header.pc = "returned" /\ header.raised = ""
        /\ header.self # None /\ header.self._spacing \in Spacings

\* what the code does: the construction with the default ends in TypeError and
\* the construction with a spacing keeps that spacing
C29_DefaultSpacingRaises ==
    (header # None /\ header.pc # "call") =>
        IF header._spacing = None
        THEN header.pc = "raised" /\ header.raised = "TypeError" /\ header.self = None
        ELSE header.pc = "returned" /\ header.self._spacing = header._spacing

\* ------------------------------------------------------------- BART files
\* A Python value is [type |-> "str", value] or [type |-> "ndarray", dtype,
\* shape, data], data being the entries in row-major (C) order.  The disk maps
\* a path to the contents of the file: a .hdr file is its lines, the second
\* one being the list of its tokens, each a list of decimal digits; a .cfl
\* file is the list of the complex64 numbers it holds.

Str(value) == [type |-> "str", value |-> value]

NdArray(dtype, shape, data) ==
    [type |-> "ndarray", dtype |-> dtype, shape |-> shape, data |-> data]

\* np.prod(dims)
RECURSIVE prod(_)
prod(dims) == IF dims = <<>> THEN 1 ELSE Head(dims) * prod(Tail(dims))

\* np.cumprod(dims)
cumprod(dims) == [k \in DOMAIN dims |-> prod(SubSeq(dims, 1, k))]

\* np.searchsorted(a, v): the number of entries of the sorted a below v
searchsorted(a, v) == Cardinality({k \in DOMAIN a : a[k] < v})

\* "%d" % i, as the list of the decimal digits of i >= 0
RECURSIVE Decimal(_)
Decimal(i) == IF i < 10 THEN <<i>> ELSE Append(Decimal(i \div 10), i % 10)

\* int(token)
RECURSIVE int(_)
int(token) ==
    IF Len(token) = 1 THEN token[1]
    ELSE 10 * int(SubSeq(token, 1, Len(token) - 1)) + token[Len(token)]

\* the multi-index (from 0) of the entry at offset k (from 0) of an array of
\* shape dims laid out in row-major order, and in column-major order
RECURSIVE UnravelC(_, _)
UnravelC(k, dims) ==
    IF dims = <<>> THEN <<>>
    ELSE UnravelC(k \div dims[Len(dims)], SubSeq(dims, 1, Len(dims) - 1))
           \o <<k % dims[Len(dims)]>>

RECURSIVE UnravelF(_, _)
UnravelF(k, dims) ==
    IF dims = <<>> THEN <<>>
    ELSE <<k % Head(dims)>> \o UnravelF(k \div Head(dims), Tail(dims))

\* the offset of the entry at a multi-index, in row-major and in column-major
\* order
RECURSIVE RavelC(_, _)
RavelC(index, dims) ==
    IF dims = <<>> THEN 0
    ELSE RavelC(SubSeq(index, 1, Len(index) - 1), SubSeq(dims, 1, Len(dims) - 1))
           * dims[Len(dims)] + index[Len(index)]

RECURSIVE RavelF(_, _)
RavelF(index, dims) ==
    IF dims = <<>> THEN 0
    ELSE Head(index) + Head(dims) * RavelF(Tail(index), Tail(dims))

\* astype(np.complex64) of a number with integer parts: each part is rounded
\* to float32
complex64(z) == Cx(float32(z[1]), float32(z[2]))

\* np.ascontiguousarray(array.T) as bytes: the entries of array in
\* column-major order, cast to complex64
TransposedBytes(array) ==
    [k \in 1..prod(array.shape) |->
        complex64(array.data[RavelC(UnravelF(k - 1, array.shape), array.shape) + 1])]

\* a.reshape(dims, order="F"): the array of shape dims whose entries in
\* column-major order are a
reshapeF(a, dims) ==
    NdArray("complex64", dims,
            [k \in 1..prod(dims) |-> a[RavelF(UnravelC(k - 1, dims), dims) + 1]])

\* the disk with the file at path holding contents
Stored(fs, path, contents) ==
    [q \in DOMAIN fs \cup {path} |-> IF q = path THEN contents ELSE fs[q]]

\* name + ".hdr", name + ".cfl"
Hdr(name) == name.value \o ".hdr"

Cfl(name) == name.value \o ".cfl"

\* _writecfl(name, array) on the disk fs: the exception raised and the disk
\* left.  name + ".hdr" raises TypeError unless name is a str.
_writecfl(name, array, fs) ==
    IF name.type # "str" THEN [exc |-> "TypeError", fs |-> fs]
    ELSE IF array.type # "ndarray"
    THEN [exc |-> "AttributeError", fs |-> Stored(fs, Hdr(name), <<"# Dimensions">>)]
    ELSE [exc |-> "",
          fs |-> Stored(Stored(fs, Hdr(name),
                               <<"# Dimensions", [k \in DOMAIN array.shape |-> Decimal(array.shape[k])]>>),
                        Cfl(name), TransposedBytes(array))]

\* write_bart(input, filename): return _writecfl(input, filename)
write_bart(input_, filename, fs) == _writecfl(input_, filename, fs)

\* the second part of _readcfl, the dims being read from the .hdr file
ReadDims(name, dims, fs) ==
    IF Cfl(name) \notin DOMAIN fs THEN [exc |-> "FileNotFoundError", value |-> None]
    ELSE IF Len(fs[Cfl(name)]) < prod(dims) THEN [exc |-> "ValueError", value |-> None]
    ELSE LET trimmed == SubSeq(dims, 1, searchsorted(cumprod(dims), prod(dims)) + 1)
         IN  [exc |-> "", value |-> reshapeF(SubSeq(fs[Cfl(name)], 1, prod(dims)), trimmed)]

\* _readcfl(name) on the disk fs: the exception raised and the array returned
_readcfl(name, fs) ==
    IF Hdr(name) \notin DOMAIN fs THEN [exc |-> "FileNotFoundError", value |-> None]
    ELSE IF Len(fs[Hdr(name)]) < 2 THEN [exc |-> "TypeError", value |-> None]
    ELSE ReadDims(name, [k \in DOMAIN fs[Hdr(name)][2] |-> int(fs[Hdr(name)][2][k])], fs)

\* read_bart(filename): np.ascontiguousarray(_readcfl(filename))
read_bart(filename, fs) == _readcfl(filename, fs)

\* ------------------------------------------------ calls of the BART routines
\* the largest number of calls made on one disk
MaxBartCalls == 3

\* an entry beyond the integers float32 holds exactly
Big == Float32Exact + 1

\* the arrays written: 1 to 3 axes with singleton axes at every place, one
\* axis of two decimal digits, entries that tell the layouts apart
BartShapes ==
    {<<1>>, <<2>>, <<1, 2>>, <<2, 1>>, <<2, 3>>, <<2, 1, 1>>, <<1, 1>>, <<1, 2, 1>>, <<12>>}

BartArrays ==
    {NdArray("complex64", shape, [k \in 1..prod(shape) |-> Cx(k, 0 - k)]) : shape \in BartShapes}
      \cup {NdArray("complex128", <<2, 2>>, <<Cx(Big, 0), Cx(0, 1), Cx(2, Big), Cx(3, 0)>>),
            NdArray("float64", <<3, 2>>, [k \in 1..6 |-> Cx(k, 0)])}

BartNames == {Str("a"), Str("b")}

InitBart ==
    /\ NoSolve /\ transform = None /\ design = None /\ phantom = None
    /\ header = None /\ states = None /\ rawdata = None /\ sorting = None /\ denoiser = None
    /\ bart = [fs |-> <<>>, calls |-> 0, op |-> "", input |-> None, filename |-> None,
               result |-> None, raised |-> "",
               before |-> [op |-> "", input |-> None, filename |-> None, raised |-> ""]]

\* the record of the call that has just ended
BartBefore == [op |-> bart.op, input |-> bart.input, filename |-> bart.filename,
               raised |-> bart.raised]

BartUnchanged ==
    /\ UNCHANGED <<solver, transform, design, phantom>>
    /\ UNCHANGED <<header, states, rawdata, sorting, denoiser>>

\* write_bart(input, filename)
WriteBart ==
    /\ bart # None /\ bart.calls < MaxBartCalls
    /\ \E input_ \in BartArrays : \E filename \in BartNames :
       \E done \in {write_bart(input_, filename, bart.fs)} :
          bart' = [fs |-> done.fs, calls |-> bart.calls + 1, op |-> "write_bart",
                   input |-> input_, filename |-> filename, result |-> None,
                   raised |-> done.exc, before |-> BartBefore]
    /\ BartUnchanged

\* _writecfl(name, array), the routine of the module called as it is declared
WriteCfl ==
    /\ bart # None /\ bart.calls < MaxBartCalls
    /\ \E array \in BartArrays : \E name \in BartNames :
       \E done \in {_writecfl(name, array, bart.fs)} :
          bart' = [fs |-> done.fs, calls |-> bart.calls + 1, op |-> "_writecfl",
                   input |-> array, filename |-> name, result |-> None,
                   raised |-> done.exc, before |-> BartBefore]
    /\ BartUnchanged

\* read_bart(filename)
ReadBart ==
    /\ bart # None /\ bart.calls < MaxBartCalls
    /\ \E filename \in BartNames :
       \E done \in {read_bart(filename, bart.fs)} :
          bart' = [fs |-> bart.fs, calls |-> bart.calls + 1, op |-> "read_bart",
                   input |-> None, filename |-> filename, result |-> done.value,
                   raised |-> done.exc, before |-> BartBefore]
    /\ BartUnchanged

NextBart == WriteBart \/ WriteCfl \/ ReadBart

SpecBart == InitBart /\ [][NextBart]_vars

\* ---------------------------------------------------------------- C21
\* shape without the singleton axes at its end
RECURSIVE WithoutTrailingOnes(_)
WithoutTrailingOnes(shape) ==
    IF shape # <<>> /\ shape[Len(shape)] = 1
    THEN WithoutTrailingOnes(SubSeq(shape, 1, Len(shape) - 1))
    ELSE shape

\* result holds the entries of array cast to complex64, on the axes of array
\* less singleton axes at the end
ReadsBackAs(result, array, shape) ==
    /\ result # None /\ result.dtype = "complex64"
    /\ result.shape = shape
    /\ result.data = [k \in DOMAIN array.data |-> complex64(array.data[k])]

\* C21: write_bart(input, filename) followed by read_bart(filename) succeeds
\* and returns the entries of input as complex64 on the dimensions of input,
\* only singleton dimensions at the end being removed.
C21_WriteThenRead ==
    (bart # None /\ bart.op = "read_bart" /\ bart.before.op = "write_bart"
       /\ bart.before.filename = bart.filename) =>
        /\ bart.before.raised = "" /\ bart.raised = ""
        /\ ReadsBackAs(bart.result, bart.before.input,
                       WithoutTrailingOnes(bart.before.input.shape))

\* what the code does: write_bart raises TypeError and leaves the disk as it
\* was
C21_WriteRaises ==
    (bart # None /\ bart.op = "write_bart") => bart.raised = "TypeError"

\* the files round-trip when _writecfl is given the name first: read_bart
\* returns the entries as complex64, all singleton axes at the end but the
\* first axis being removed
C21_WritecflThenRead ==
    (bart # None /\ bart.op = "read_bart" /\ bart.before.op = "_writecfl"
       /\ bart.before.filename = bart.filename) =>
        /\ bart.before.raised = "" /\ bart.raised = ""
        /\ \E shape \in {WithoutTrailingOnes(bart.before.input.shape)} :
              ReadsBackAs(bart.result, bart.before.input,
                          IF shape = <<>> THEN <<1>> ELSE shape)

\* ----------------------------------------------------------- EPG gradients
\* states["F"] has shape (nstates, nlocs, npools, 3): F[k][l][q] is
\* <<F+, F-, Z>> of dephasing order k - 1 at location l for pool q.

\* F[..., c]
Component(F, c) == [k \in DOMAIN F |-> [l \in DOMAIN F[k] |-> [q \in DOMAIN F[k][l] |-> F[k][l][q][c]]]]

\* F after F[..., c] = X
SetComponent(F, c, X) ==
    [k \in DOMAIN F |-> [l \in DOMAIN F[k] |-> [q \in DOMAIN F[k][l] |->
        [F[k][l][q] EXCEPT ![c] = X[k][l][q]]]]]

\* a slip that would roll the other way
roll_backwards(X, shifts) == [k \in DOMAIN X |-> X[((k - 1 + shifts) % Len(X)) + 1]]

\* torch.roll(X, shifts, -3): the entries move by shifts along the axis of
\* the states, those pushed past the end coming back at the start
roll(X, shifts) == [k \in DOMAIN X |-> X[((k - 1 - shifts) % Len(X)) + 1]]

\* F after F[-1, ..., 1] = 0.0
ZeroHighestFm(F) ==
    [F EXCEPT ![Len(F)] = [l \in DOMAIN F[Len(F)] |-> [q \in DOMAIN F[Len(F)][l] |->
        [F[Len(F)][l][q] EXCEPT ![2] = Zero]]]]

\* F after F[0, ..., 0] = F[0, ..., 1].conj()
FillLowestFp(F) ==
    [F EXCEPT ![1] = [l \in DOMAIN F[1] |-> [q \in DOMAIN F[1][l] |->
        [F[1][l][q] EXCEPT ![1] = CConj(F[1][l][q][2])]]]]

\* Shift.apply: the F it leaves in the dictionary
Shift_apply(F) ==
    FillLowestFp(ZeroHighestFm(
        Bind(SetComponent(F, 1, roll(Component(F, 1), 1)),
             LAMBDA G : SetComponent(G, 2, roll(Component(G, 2), 0 - 1)))))

\* ------------------------------------------------ calls of Shift.apply
\* the largest number of dephasing states, of locations, and of shifts applied
\* in a row
MaxStates == 3

MaxLocs == 2

MaxShifts == 3

\* the configuration matrices: every entry differs from its neighbours, in
\* both parts
StatesF(N, nlocs, a, b) ==
    [k \in 1..N |-> [l \in 1..nlocs |-> [q \in 1..1 |->
        <<Cx(a * k + l, b + k), Cx(k + b, a + l + k), Cx(k, 0)>>]]]

InitStates ==
    /\ NoSolve /\ transform = None /\ design = None /\ phantom = None
    /\ header = None /\ bart = None /\ rawdata = None /\ sorting = None /\ denoiser = None
    /\ \E N \in 1..MaxStates : \E nlocs \in 1..MaxLocs : \E a \in 0..2 : \E b \in 0..1 :
          states = [F |-> StatesF(N, nlocs, a, b), before |-> None, shifts |-> 0]

\* states = Shift().apply(states)
ShiftApply ==
    /\ states # None /\ states.shifts < MaxShifts
    /\ states' = [F |-> Shift_apply(states.F), before |-> states.F,
                  shifts |-> states.shifts + 1]
    /\ UNCHANGED <<solver, transform, design, phantom>>
    /\ UNCHANGED <<header, bart, rawdata, sorting, denoiser>>

NextStates == ShiftApply

SpecStates == InitStates /\ [][NextStates]_vars

\* ---------------------------------------------------------------- C22
\* a shift has just been applied
Shifted == states # None /\ states.shifts > 0

\* C22: Shift.apply on N dephasing states moves F+ up and F- down by one
\* order without wrap-around: new F+[k] = old F+[k-1] for 1 <= k < N, new
\* F-[k] = old F-[k+1] for 0 <= k < N-1, the highest F- is zero and the lowest
\* F+ is the complex conjugate of the new lowest F-.
C22_ShiftWithoutWrap ==
    Shifted =>
        \E N \in {Len(states.F)} :
        \A l \in DOMAIN states.F[1] : \A q \in DOMAIN states.F[1][l] :
            /\ \A k \in 2..N : states.F[k][l][q][1] = states.before[k - 1][l][q][1]
            /\ \A k \in 1..(N - 1) : states.F[k][l][q][2] = states.before[k + 1][l][q][2]
            /\ states.F[N][l][q][2] = Zero
            /\ states.F[1][l][q][1] = CConj(states.F[1][l][q][2])
            /\ Len(states.before) = N

\* three states were shifted whose highest F+ and lowest F- were not zero, and
\* whose highest F+ was not the conjugate of the F- that became the lowest
C22_Witness ==
    /\ Shifted /\ Len(states.F) = 3
    /\ \E l \in DOMAIN states.F[1] :
          /\ states.before[3][l][1][1] # Zero
          /\ states.before[1][l][1][2] # Zero
          /\ states.before[3][l][1][1] # CConj(states.before[2][l][1][2])
          /\ states.F[1][l][1][2] # Zero /\ states.F[2][l][1][1] # Zero

\* -------------------------------------------------------------- read_rawdata
\* A file is [mrd, gehc, mode, separable]: whether the MRD reader of mrd.py
\* (read_mrd) parses it, whether the GEHC reader parses it, and the entries
\* "mode" and "separable" of the user dictionary of its header.

\* the names the module deepmr.io.kspace.mrd defines
MrdModule ==
    {"read_mrd", "_read_header", "_read_mrd", "_get_data", "_sort_data", "_loop_sorting"}

\* the key "mode" is not in head.user
NoMode == "None"

Modes == {"2Dcart", "2Dnoncart", "3Dcart", "3Dnoncart"}

\* head.user["mode"][2:] == "cart"
IsCart(mode) == mode \in {"2Dcart", "3Dcart"}

\* what a reader returns for a file: the k-space data and the header
RawData(file, reader) == [reader |-> reader, axes |-> "coil, contrast, slice, view, sample"]

RawHead(file) ==
    [user |-> [mode |-> file.mode, separable |-> file.separable],
     transpose |-> <<0, 1, 2, 3>>, traj |-> "traj"]

\* mrd.read_mrd(filepath): data, traj, dcf, header, or an exception of the
\* ismrmrd library
read_mrd(file) ==
    IF file.mrd
    THEN [exc |-> "", value |-> <<RawData(file, "mrd"), "traj", "dcf", RawHead(file)>>]
    ELSE [exc |-> "OSError", value |-> None]

\* gehc.read_gehc_rawdata(filepath, acqheader): data and head, or an exception
read_gehc_rawdata(file, acqheader) ==
    IF file.gehc
    THEN [exc |-> "", value |-> <<RawData(file, "gehc"), RawHead(file)>>]
    ELSE [exc |-> "OSError", value |-> None]

\* data, head = value: the tuple must hold two entries
Unpack2(r) ==
    IF r.exc # "" THEN r
    ELSE IF Len(r.value) # 2 THEN [exc |-> "ValueError", value |-> None]
    ELSE r

\* data, head = _mrd.read_mrd_rawdata(filepath): the attribute is looked up in
\* the module first; called tells whether a reader of the module ran
TryMrd(file) ==
    IF "read_mrd_rawdata" \notin MrdModule
    THEN [exc |-> "AttributeError", value |-> None, called |-> FALSE]
    ELSE [exc |-> Unpack2(read_mrd(file)).exc, value |-> Unpack2(read_mrd(file)).value,
          called |-> TRUE]

\* data, head = _gehc.read_gehc_rawdata(filepath, acqheader)
TryGehc(file, acqheader) ==
    [exc |-> Unpack2(read_gehc_rawdata(file, acqheader)).exc,
     value |-> Unpack2(read_gehc_rawdata(file, acqheader)).value, called |-> TRUE]

\* the steps applied to data after a reader returned, in order
Steps(user) ==
    <<"transpose", "_select_readout", "_fov_centering">>
      \o (IF user.mode # NoMode /\ IsCart(user.mode) THEN <<"_remove_oversampling">> ELSE <<>>)
      \o (IF user.mode = "3Dcart" THEN <<"transpose">> ELSE <<>>)
      \o (IF user.separable THEN <<"_fft">> ELSE <<>>)
      \o (IF user.mode = "3Dnoncart" THEN <<"data[0]">> ELSE <<>>)

\* the header after the post-processing
Processed(head) ==
    [user |-> [mode |-> NoMode, separable |-> FALSE],
     transpose |-> IF head.user.mode = NoMode THEN head.transpose
                   ELSE IF head.user.mode = "3Dcart" THEN <<1, 2, 3, 0>>
                   ELSE <<1, 0, 2, 3>>,
     traj |-> IF head.user.mode # NoMode /\ IsCart(head.user.mode) THEN None ELSE head.traj]

\* read_rawdata(filepath, acqheader): the try blocks entered, the exceptions
\* swallowed, the reader that supplied data and head, the steps applied, the
\* data and header returned and the exception raised
read_rawdata(file, acqheader) ==
    LET first == TryMrd(file)
        second == TryGehc(file, acqheader)
        loaded == IF first.exc = "" THEN first ELSE second
    IN  [tried |-> IF first.exc = "" THEN <<"mrd">> ELSE <<"mrd", "gehc">>,
         swallowed |-> (IF first.exc = "" THEN <<>> ELSE <<first.exc>>)
                         \o (IF first.exc # "" /\ second.exc # "" THEN <<second.exc>> ELSE <<>>),
         source |-> IF loaded.exc = "" THEN loaded.value[1].reader ELSE "",
         steps |-> IF loaded.exc = "" THEN Steps(loaded.value[2].user) ELSE <<>>,
         head |-> IF loaded.exc = "" THEN Processed(loaded.value[2]) ELSE None,
         raised |-> IF loaded.exc = "" THEN "" ELSE "RuntimeError"]

\* ------------------------------------------------------ calls of read_rawdata
RawFiles ==
    [mrd : BOOLEAN, gehc : BOOLEAN, mode : Modes \cup {NoMode}, separable : BOOLEAN]

InitRawdata ==
    /\ NoSolve /\ transform = None /\ design = None /\ phantom = None
    /\ header = None /\ bart = None /\ states = None /\ sorting = None /\ denoiser = None
    /\ \E file \in RawFiles : \E acqheader \in {"None", "Header"} : \E verbose \in 0..2 :
          rawdata = [file |-> file, acqheader |-> acqheader, verbose |-> verbose,
                     pc |-> "call", result |-> None]

\* data, head = deepmr.io.read_rawdata(filepath, acqheader, verbose=verbose)
ReadRawdata ==
    /\ rawdata # None /\ rawdata.pc = "call"
    /\ \E result \in {read_rawdata(rawdata.file, rawdata.acqheader)} :
          rawdata' = [rawdata EXCEPT !.result = result,
                                     !.pc = IF result.raised = "" THEN "returned" ELSE "raised"]
    /\ UNCHANGED <<solver, transform, design, phantom>>
    /\ UNCHANGED <<header, bart, states, sorting, denoiser>>

NextRawdata == ReadRawdata

SpecRawdata == InitRawdata /\ [][NextRawdata]_vars

\* ---------------------------------------------------------------- C27
\* read_rawdata has ended
RawdataEnded == rawdata # None /\ rawdata.pc # "call"

\* C27: read_rawdata tries the MRD reader first and the GEHC reader only if
\* the MRD reader raised; the first reader that succeeds supplies data and
\* header; RuntimeError is raised if and only if every reader raised, before
\* any post-processing of data.
C27_FirstReaderThatSucceeds ==
    RawdataEnded =>
        /\ rawdata.result.tried[1] = "mrd"
        /\ Len(rawdata.result.tried) = 2 => read_mrd(rawdata.file).exc # ""
        /\ read_mrd(rawdata.file).exc = "" => rawdata.result.source = "mrd"
        /\ (read_mrd(rawdata.file).exc # ""
              /\ read_gehc_rawdata(rawdata.file, rawdata.acqheader).exc = "")
             => rawdata.result.source = "gehc"
        /\ rawdata.pc = "raised" <=>
             /\ read_mrd(rawdata.file).exc # ""
             /\ read_gehc_rawdata(rawdata.file, rawdata.acqheader).exc # ""
        /\ rawdata.pc = "raised" =>
             rawdata.result.raised = "RuntimeError" /\ rawdata.result.steps = <<>>

\* what the code does: the MRD attempt always ends in AttributeError, which is
\* swallowed; the GEHC reader alone decides between data and RuntimeError
C27_GehcAlone ==
    RawdataEnded =>
        /\ rawdata.result.tried = <<"mrd", "gehc">>
        /\ rawdata.result.swallowed[1] = "AttributeError"
        /\ rawdata.result.source # "mrd"
        /\ rawdata.pc = "raised" <=>
             read_gehc_rawdata(rawdata.file, rawdata.acqheader).exc # ""
        /\ rawdata.pc = "raised" =>
             rawdata.result.raised = "RuntimeError" /\ rawdata.result.steps = <<>>
        /\ rawdata.pc = "returned" => rawdata.result.source = "gehc"

\* --------------------------------------------------------------- MRD sorting
\* An acquisition is [idx, data, traj]: idx = <<contrast, slice,
\* kspace_encode_step_1>>, data the (ncoils, npts) samples and traj the
\* (npts, ndims + 1) trajectory with the density weights in its last column,
\* <<>> (size 0) when the file stores none.  An array is [shape, a], a being
\* nested lists; the entries are integers.

\* np.zeros(shape)
RECURSIVE zeros(_)
zeros(shape) ==
    IF shape = <<>> THEN 0 ELSE [i \in 1..Head(shape) |-> zeros(Tail(shape))]

\* a.squeeze(): a of the given shape without its axes of length 1
RECURSIVE squeeze(_, _)
squeeze(a, shape) ==
    IF shape = <<>> THEN a
    ELSE IF Head(shape) = 1 THEN squeeze(a[1], Tail(shape))
    ELSE [i \in 1..Head(shape) |-> squeeze(a[i], Tail(shape))]

\* _get_data(acquisitions): the stacked data, and the stacked trajectories
\* split into traj (all columns but the last) and dcf (the last column), or
\* None for both when the first acquisition has no trajectory
_get_data(acquisitions) ==
    [data |-> [k \in DOMAIN acquisitions |-> acquisitions[k].data],
     traj |-> IF acquisitions[1].traj = <<>> THEN None
              ELSE [k \in DOMAIN acquisitions |->
                       [i \in DOMAIN acquisitions[k].traj |->
                           SubSeq(acquisitions[k].traj[i], 1, Len(acquisitions[k].traj[i]) - 1)]],
     dcf |-> IF acquisitions[1].traj = <<>> THEN None
             ELSE [k \in DOMAIN acquisitions |->
                      [i \in DOMAIN acquisitions[k].traj |->
                          <<acquisitions[k].traj[i][Len(acquisitions[k].traj[i])]>>]]]

\* source can be broadcast to the (rows, cols) entries assigned
Broadcasts(source, rows, cols) ==
    /\ Len(source) = rows \/ Len(source) = 1
    /\ Len(source[1]) = cols \/ Len(source[1]) = 1

\* output[:, iecho, islice, iview, :] = source on a 5-D output
Assigned(tmp, iecho, islice, iview, source) ==
    [i \in DOMAIN tmp |->
        [tmp[i] EXCEPT ![iecho + 1][islice + 1][iview + 1] =
            [j \in DOMAIN tmp[i][iecho + 1][islice + 1][iview + 1] |->
                source[IF Len(source) = 1 THEN 1 ELSE i]
                      [IF Len(source[1]) = 1 THEN 1 ELSE j]]]]

\* the loop of _loop_sorting from frame k on.  out is [shape, a, exc,
\* undefined]: the assignment raises ValueError when the source cannot be
\* broadcast; an index past the end of its axis is not checked by the compiled
\* loop and the write is undefined
RECURSIVE LoopFrom(_, _, _, _)
LoopFrom(k, out, input_, order) ==
    IF k > Len(input_) \/ out.exc # "" THEN out
    ELSE IF ~Broadcasts(input_[k], out.shape[1], out.shape[5])
    THEN [out EXCEPT !.exc = "ValueError"]
    ELSE IF \E c \in 1..3 : order[k][c] >= out.shape[c + 1]
    THEN LoopFrom(k + 1, [out EXCEPT !.undefined = TRUE], input_, order)
    ELSE LoopFrom(k + 1,
                  [out EXCEPT !.a = Assigned(out.a, order[k][1], order[k][2], order[k][3],
                                             input_[k])],
                  input_, order)

\* _loop_sorting(output, input, echo_num, slice_num, view_num), output being
\* zeros(shape): five indices on an array of another rank do not compile
_loop_sorting(shape, input_, order) ==
    IF Len(shape) # 5
    THEN [shape |-> shape, a |-> zeros(shape), exc |-> "TypingError", undefined |-> FALSE]
    ELSE LoopFrom(1, [shape |-> shape, a |-> zeros(shape), exc |-> "", undefined |-> FALSE],
                  input_, order)

\* the indices of the acquisitions, in file order
Ordering(acquisitions) == [k \in DOMAIN acquisitions |-> acquisitions[k].idx]

\* what _sort_data returns or raises
Sorted5(exc, datatmp, data, traj, dcf, ordering) ==
    [exc |-> exc, datatmp |-> datatmp, data |-> data, traj |-> traj, dcf |-> dcf,
     ordering |-> ordering]

\* the branch `if traj is not None` of _sort_data: data, traj and dcf are
\* sorted in turn; crash tells whether an undefined write ends the process
SortWithTraj(got, shape, ncoils, ndims, order, crash) ==
    LET datatmp == _loop_sorting(<<ncoils>> \o shape, got.data, order)
        trajtmp == _loop_sorting(shape \o <<ndims>>, got.traj, order)
        dcftmp == _loop_sorting(shape, got.dcf, order)
    IN  IF datatmp.exc # "" THEN Sorted5(datatmp.exc, None, None, None, None, None)
        ELSE IF trajtmp.exc # "" THEN Sorted5(trajtmp.exc, datatmp.a, None, None, None, None)
        ELSE IF trajtmp.undefined /\ crash
        THEN Sorted5("SegmentationFault", datatmp.a, None, None, None, None)
        ELSE IF dcftmp.exc # "" THEN Sorted5(dcftmp.exc, datatmp.a, None, None, None, None)
        ELSE Sorted5("", datatmp.a, squeeze(datatmp.a, datatmp.shape),
                     squeeze(trajtmp.a, trajtmp.shape), squeeze(dcftmp.a, dcftmp.shape), order)

\* _sort_data(data, traj, dcf, acquisitions, mrdhead), limits being the
\* maxima of encodingLimits: traj.shape[-1] raises AttributeError when traj is
\* None, before the branch that sorts the data alone
_sort_data(got, acquisitions, limits, crash) ==
    IF got.traj = None THEN Sorted5("AttributeError", None, None, None, None, None)
    ELSE SortWithTraj(got,
                      <<limits[1] + 1, limits[2] + 1, limits[3] + 1, Len(got.data[1][1])>>,
                      Len(got.data[1]), Len(got.traj[1][1]), Ordering(acquisitions), crash)

\* the undefined write happens for these acquisitions
UndefinedWrite(acquisitions, limits) ==
    /\ _get_data(acquisitions).traj # None
    /\ \E k \in DOMAIN acquisitions :
          \/ acquisitions[k].idx[1] > limits[2]
          \/ acquisitions[k].idx[2] > limits[3]
          \/ acquisitions[k].idx[3] >= Len(acquisitions[k].data[1])

\* --------------------------------------------------- calls of the MRD sorting
\* the largest number of acquisitions, of coils and of samples
MaxAcquisitions == 3

MaxCoils == 2

MaxSamples == 2

\* the places (contrast, slice, view) an acquisition is stored at
Places == {<<0, 0, 0>>, <<1, 0, 0>>, <<0, 1, 0>>, <<0, 0, 1>>, <<1, 1, 1>>}

\* acquisition k of the file: every sample and every trajectory entry differs
\* from all others
Acquisition(k, idx, ncoils, npts, hastraj) ==
    [idx |-> idx,
     data |-> [c \in 1..ncoils |-> [i \in 1..npts |-> 100 * k + 10 * c + i]],
     traj |-> IF hastraj THEN [i \in 1..npts |-> [d \in 1..3 |-> 1000 + 100 * k + 10 * i + d]]
              ELSE <<>>]

\* the largest index on axis c
Largest(order, c) == CHOOSE m \in 0..1 : (\E k \in DOMAIN order : order[k][c] = m)
                                           /\ \A k \in DOMAIN order : order[k][c] <= m

InitSorting ==
    /\ NoSolve /\ transform = None /\ design = None /\ phantom = None
    /\ header = None /\ bart = None /\ states = None /\ rawdata = None /\ denoiser = None
    /\ \E nacq \in 1..MaxAcquisitions : \E order \in [1..nacq -> Places] :
       \E ncoils \in 1..MaxCoils : \E npts \in 1..MaxSamples : \E hastraj \in BOOLEAN :
       \E limits \in {<<1, 1, 1>>, <<Largest(order, 1), Largest(order, 2), Largest(order, 3)>>} :
          sorting = [acquisitions |-> [k \in 1..nacq |->
                                          Acquisition(k, order[k], ncoils, npts, hastraj)],
                     limits |-> limits, pc |-> "call", result |-> None]

\* data, traj, dcf = _get_data(acquisitions); data, traj, dcf, ordering =
\* _sort_data(data, traj, dcf, acquisitions, mrdhead)
SortData ==
    /\ sorting # None /\ sorting.pc = "call"
    /\ \E crash \in IF UndefinedWrite(sorting.acquisitions, sorting.limits)
                    THEN BOOLEAN ELSE {FALSE} :
       \E result \in {_sort_data(_get_data(sorting.acquisitions), sorting.acquisitions,
                                 sorting.limits, crash)} :
          sorting' = [sorting EXCEPT !.result = result,
                                     !.pc = IF result.exc = "" THEN "returned" ELSE "raised"]
    /\ UNCHANGED <<solver, transform, design, phantom>>
    /\ UNCHANGED <<header, bart, states, rawdata, denoiser>>

NextSorting == SortData

SpecSorting == InitSorting /\ [][NextSorting]_vars

\* ---------------------------------------------------------------- C28
\* the sorting has ended
SortingEnded == sorting # None /\ sorting.pc # "call"

\* acquisition k is the last one of the file stored at its place
LastAtPlace(k) ==
    \A j \in DOMAIN sorting.acquisitions :
        sorting.acquisitions[j].idx = sorting.acquisitions[k].idx => j <= k

\* tmp, of shape (ncoils, ncontrasts, nslices, nviews, npts), holds the
\* samples of every acquisition that is the last at its place
HoldsSamples(tmp) ==
    \A k \in DOMAIN sorting.acquisitions : LastAtPlace(k) =>
        \E idx \in {sorting.acquisitions[k].idx} :
            \A c \in DOMAIN tmp : \A i \in DOMAIN sorting.acquisitions[k].data[c] :
                tmp[c][idx[1] + 1][idx[2] + 1][idx[3] + 1][i]
                  = sorting.acquisitions[k].data[c][i]

\* C28: after MRD sorting the arrays hold, for every acquisition with indices
\* (c, z, v), its samples at data[:, c, z, v, :], its trajectory at
\* traj[c, z, v, :, :] and its density weights at dcf[c, z, v, :];
\* acquisitions without trajectory are sorted too, traj and dcf being None;
\* of two acquisitions at one place the later one wins.
C28_SortedByIndices ==
    SortingEnded =>
        /\ sorting.pc = "returned"
        /\ HoldsSamples(sorting.result.datatmp)
        /\ IF sorting.acquisitions[1].traj = <<>>
           THEN sorting.result.traj = None /\ sorting.result.dcf = None
           ELSE sorting.result.traj # None /\ sorting.result.dcf # None

\* what the code does: the sorting never returns.  Without trajectory it
\* raises AttributeError; with one, the samples are sorted as claimed and the
\* call ends in ValueError, TypingError or an undefined write
C28_SortingRaises ==
    SortingEnded =>
        /\ sorting.pc = "raised"
        /\ IF sorting.acquisitions[1].traj = <<>>
           THEN sorting.result.exc = "AttributeError"
           ELSE /\ sorting.result.exc \in {"ValueError", "TypingError", "SegmentationFault"}
                /\ HoldsSamples(sorting.result.datatmp)

\* ------------------------------------------------------------ _TGVDenoiser
\* A tensor is [shape, value].  The Chambolle-Pock update takes square roots,
\* so the value of a tensor is a term: <<name>> for a tensor a caller made,
\* <<"zeros">>, and <<part, k, x2, r2, u2, y, ths>> for the part ("x2", "r2"
\* or "u2") that k iterations leave when they start from the values x2, r2,
\* u2 on the input y with threshold ths.  Two terms are equal exactly when they
\* are the result of the same computation.

Tensor(shape, value) == [shape |-> shape, value |-> value]

\* ths = None
NoThs == "None"

\* _TGVDenoiser.__init__(ndim, device, verbose, n_it_max, crit, x2, u2, r2)
TGVDenoiser_init(n_it_max, x2, u2, r2) ==
    [n_it_max |-> n_it_max, restart |-> TRUE, x2 |-> x2, r2 |-> r2, u2 |-> u2,
     has_converged |-> FALSE]

\* the test at the head of forward
Restarts(self, y) ==
    self.restart \/ self.x2 = None \/ self.x2.shape # y.shape

\* the variables the loop of forward starts from
StartingPoint(self, y) ==
    IF Restarts(self, y)
    THEN [x2 |-> y,
          r2 |-> Tensor(y.shape \o <<2>>, <<"zeros">>),
          u2 |-> Tensor(y.shape \o <<4>>, <<"zeros">>)]
    ELSE [x2 |-> self.x2, r2 |-> self.r2, u2 |-> self.u2]

\* the variables k iterations leave
Iterated(start, y, ths, k) ==
    IF k = 0 THEN start
    ELSE [part \in {"x2", "r2", "u2"} |->
             Tensor(start[part].shape,
                    <<part, k, start.x2.value, start.r2.value, start.u2.value, y.value, ths>>)]

\* the numbers of iterations the loop can run: all n_it_max of them, or, once
\* the relative change is below crit, any number from 3 on (the test needs
\* _ > 1)
Iterations(n_it_max) == {n_it_max} \cup 3..n_it_max

\* forward(y, ths) running k iterations: the object left, the variables the
\* loop started from, the tensor returned and the exception raised.  With
\* ths = None lambda1 is not bound and the first iteration raises.
TGVDenoiser_forward(self, y, ths, k) ==
    LET start == StartingPoint(self, y)
        unbound == ths = NoThs /\ self.n_it_max > 0
        end == IF unbound THEN start ELSE Iterated(start, y, ths, k)
    IN  [self |-> [self EXCEPT !.restart = IF Restarts(self, y) THEN FALSE ELSE self.restart,
                               !.x2 = end.x2, !.r2 = end.r2, !.u2 = end.u2,
                               !.has_converged = IF ~unbound /\ k < self.n_it_max THEN TRUE
                                                 ELSE self.has_converged],
         start |-> start,
         out |-> IF unbound THEN None ELSE end.x2,
         exc |-> IF unbound THEN "UnboundLocalError" ELSE ""]

\* ------------------------------------------------- calls of the TGV denoiser
\* the largest n_it_max and the largest number of forward calls
MaxTgvIter == 3

MaxForwards == 2

TgvShapes == {<<1, 1, 2, 2>>, <<1, 1, 2, 3>>}

\* the warm-restart variables a caller gives: none, x2 alone, or all three
WarmStarts ==
    {[x2 |-> None, r2 |-> None, u2 |-> None]}
      \cup {[x2 |-> Tensor(shape, <<"x0">>), r2 |-> None, u2 |-> None] : shape \in TgvShapes}
      \cup {[x2 |-> Tensor(shape, <<"x0">>), r2 |-> Tensor(shape \o <<2>>, <<"r0">>),
             u2 |-> Tensor(shape \o <<4>>, <<"u0">>)] : shape \in TgvShapes}

TgvInputs == {Tensor(shape, <<name>>) : shape \in TgvShapes, name \in {"y1", "y2"}}

InitDenoiser ==
    /\ NoSolve /\ transform = None /\ design = None /\ phantom = None
    /\ header = None /\ bart = None /\ states = None /\ rawdata = None /\ sorting = None
    /\ \E n_it_max \in 0..MaxTgvIter : \E given \in WarmStarts :
          denoiser = [self |-> TGVDenoiser_init(n_it_max, given.x2, given.u2, given.r2),
                      given |-> given, calls |-> 0, y |-> None, start |-> None,
                      left |-> None, out |-> None, raised |-> ""]

\* output = denoiser(y, ths)
Forward ==
    /\ denoiser # None /\ denoiser.calls < MaxForwards
    /\ \E y \in TgvInputs : \E ths \in {NoThs, "0.1"} :
       \E k \in Iterations(denoiser.self.n_it_max) :
       \E done \in {TGVDenoiser_forward(denoiser.self, y, ths, k)} :
          denoiser' = [self |-> done.self, given |-> denoiser.given,
                       calls |-> denoiser.calls + 1, y |-> y, start |-> done.start,
                       left |-> [x2 |-> denoiser.self.x2, r2 |-> denoiser.self.r2,
                                 u2 |-> denoiser.self.u2],
                       out |-> done.out, raised |-> done.exc]
    /\ UNCHANGED <<solver, transform, design, phantom>>
    /\ UNCHANGED <<header, bart, states, rawdata, sorting>>

NextDenoiser == Forward

SpecDenoiser == InitDenoiser /\ [][NextDenoiser]_vars

\* ---------------------------------------------------------------- C30
\* C30: the x2, u2, r2 given to the constructor are the starting point of the
\* first forward call whenever their shape matches the input, and a later call
\* on an input of unchanged shape starts from the x2, r2, u2 the previous call
\* left.
C30_WarmRestart ==
    (denoiser # None /\ denoiser.calls > 0) =>
        /\ (/\ denoiser.calls = 1
            /\ denoiser.given.x2 # None /\ denoiser.given.r2 # None
            /\ denoiser.given.u2 # None
            /\ denoiser.given.x2.shape = denoiser.y.shape)
             => denoiser.start = denoiser.given
        /\ (denoiser.calls > 1 /\ denoiser.left.x2.shape = denoiser.y.shape)
             => denoiser.start = denoiser.left

\* what the code does: the first call always starts from the input and zeros,
\* whatever was given; later calls on an unchanged shape start from what the
\* previous call left
C30_FirstCallRestarts ==
    (denoiser # None /\ denoiser.calls > 0) =>
        /\ denoiser.calls = 1 =>
             denoiser.start = [x2 |-> denoiser.y,
                               r2 |-> Tensor(denoiser.y.shape \o <<2>>, <<"zeros">>),
                               u2 |-> Tensor(denoiser.y.shape \o <<4>>, <<"zeros">>)]
        /\ (denoiser.calls > 1 /\ denoiser.left.x2.shape = denoiser.y.shape)
             => denoiser.start = denoiser.left

====
